---- MODULE Spec2Model ----
(***************************************************************************)
(* BarrelConsensus: the stake-weighted proposal engine, together with the  *)
(* BarrelToken ledger it calls (transferFrom / transfer) and the token's   *)
(* minting, the BarrelVault, and the loop of the agents' Orchestrator that *)
(* drives the engine through ContractClient.                               *)
(* Every external function is one action; a reverting call leaves every    *)
(* variable of the contracts untouched, and its revert reason is the value *)
(* of the operator CreateErr / StakeErr / ClaimErr / ExpireErr in the      *)
(* state it is made in.                                                    *)
(***************************************************************************)
EXTENDS Integers, Sequences, FiniteSets, TLC

\* ------------------------------------------------------------ bounds
\* number of createProposal calls that may succeed (length of allProposalIds)
MaxProposals == 2
\* number of agent-function calls that may succeed in one run
MaxCalls == 6
\* block.timestamp at deployment
GenesisTime == 1
\* the token balance every agent is funded with at deployment
AGENT_ALLOCATION == 40

\* ------------------------------------------------------------ program constants
QUORUM_BPS == 6600
PROPOSAL_TIMEOUT == 30
COOLDOWN_PERIOD == 60
SLASH_BPS == 1000
REWARD_BPS == 500
BPS_DENOMINATOR == 10000
\* type(uint256).max, the "infinite allowance" marker of transferFrom; the
\* amounts of the model stay far below it
MaxUint256 == 2147483647

\* ------------------------------------------------------------ inputs
Agents == {"mo", "vox"}
Owner == "owner"
Engine == "consensus"
NoAddr == "0x0"
Tokens == {"tok"}
Directions == {"Long"}
Amounts == {0, 10, 20}
Holders == Agents \cup {Engine}

VARIABLES
    now,                \* block.timestamp
    owner,              \* BarrelConsensus.owner
    agents,             \* mapping(address => AgentInfo)
    proposals,          \* mapping(bytes32 => Proposal), the keys written so far
    stakes,             \* mapping(bytes32 => mapping(address => Stake))
    proposalStakers,    \* mapping(bytes32 => address[])
    activeProposalIds,  \* bytes32[]
    allProposalIds,     \* bytes32[]
    balances,           \* BarrelToken._balances
    allowances,         \* BarrelToken._allowances[agent][consensus]
    totalSupply,        \* BarrelToken._totalSupply
    mintingFinished,    \* BarrelToken.mintingFinished
    tokenOwner,         \* BarrelToken.owner
    vault,              \* BarrelVault storage: consensus, owner, supportedTokens,
                        \* trades, executedProposals
    stakedIn,           \* history: value debited into custody, per proposal
    paidOut,            \* history: value credited out of custody, per proposal
    lossTimes,          \* history: the times at which an agent was settled as a loser
    claimCount,         \* history: successful claims per (proposal, participant)
    vaultCalls,         \* history: the proposals passed to vault.executeSimpleTrade
    finalizations,      \* history: finalization events emitted, per proposal
    orchestrator,       \* Orchestrator (off-chain): state.isRunning, stats.tickCount,
                        \* state.activeProposals, and the position of start() in its
                        \* loop with the locals of the tick in progress
    last                \* history: the last agent-function call that did not revert

vars == <<now, owner, agents, proposals, stakes, proposalStakers, activeProposalIds,
          allProposalIds, balances, allowances, totalSupply, mintingFinished, tokenOwner,
          vault,
          stakedIn, paidOut, lossTimes, claimCount, vaultCalls, finalizations,
          orchestrator, last>>

engineVars == <<owner, agents, proposals, stakes, proposalStakers, activeProposalIds,
                allProposalIds>>
ledgerVars == <<balances, allowances>>
mintVars == <<totalSupply, mintingFinished, tokenOwner>>
vaultVars == <<vault>>
orchVars == <<orchestrator>>
transferVars == <<stakedIn, paidOut, lossTimes, claimCount>>
historyVars == <<stakedIn, paidOut, lossTimes, claimCount, vaultCalls, finalizations>>

\* everything on the chain, with its history
chainVars == <<now, engineVars, ledgerVars, mintVars, vaultVars, historyVars, last>>

\* ------------------------------------------------------------ storage defaults
ZeroProposal ==
    [token |-> NoAddr, direction |-> "Long", createdAt |-> 0, expiresAt |-> 0,
     totalStakeFor |-> 0, totalStakeAgainst |-> 0, status |-> "Pending",
     creator |-> NoAddr]

ZeroStake == [amount |-> 0, isFor |-> FALSE, claimed |-> FALSE]

\* the vault as deployed next to the engine: constructed, then pointed at the
\* engine with setConsensus
DeployedVault ==
    [consensus |-> Engine, owner |-> Owner, supportedTokens |-> {}, trades |-> <<>>,
     executedProposals |-> {}]

\* processProposal's argument before any proposal is processed
NoProposal == [id |-> <<NoAddr, "Long", 0, NoAddr>>, agent |-> NoAddr]

\* the orchestrator as constructed: start() not called
IdleOrchestrator ==
    [isRunning |-> FALSE, pc |-> "idle", tickCount |-> 0, proposal |-> NoProposal,
     activeProposals |-> {}, toPoll |-> {}, claiming |-> NoProposal.id, claimants |-> {},
     errorLogged |-> FALSE]

ZeroAgent == [registered |-> FALSE, totalStaked |-> 0, wins |-> 0, losses |-> 0,
              cooldownUntil |-> 0]

\* the zero identifier, which no createProposal call produces
UnknownId == <<NoAddr, "Long", 0, NoAddr>>

Prop(id) == IF id \in DOMAIN proposals THEN proposals[id] ELSE ZeroProposal

StakeOf(id, a) == IF <<id, a>> \in DOMAIN stakes THEN stakes[<<id, a>>] ELSE ZeroStake

StakersOf(id) == IF id \in DOMAIN proposalStakers THEN proposalStakers[id] ELSE <<>>

Tally(f, id) == IF id \in DOMAIN f THEN f[id] ELSE 0

\* f with key k set to v (a storage write to a mapping slot)
Put(f, k, v) == [x \in DOMAIN f \cup {k} |-> IF x = k THEN v ELSE f[x]]

\* keccak256(abi.encodePacked(token, direction, block.timestamp, msg.sender)):
\* injective in its four arguments
ProposalId(token, direction, timestamp, sender) == <<token, direction, timestamp, sender>>

\* the identifiers the callers pass: those createProposal has returned
KnownIds == DOMAIN proposals

\* ------------------------------------------------------------ BarrelToken
\* mutant: the allowance is not checked
TransferFromErr_NoAllowanceCheck(from, amount) ==
    IF balances[from] < amount THEN "InsufficientBalance"
    ELSE "ok"

\* the revert reason of transferFrom(from, consensus, amount), or "ok"
TransferFromErr(from, amount) ==
    IF allowances[from] # MaxUint256 /\ allowances[from] < amount
        THEN "InsufficientAllowance"
    ELSE IF balances[from] < amount THEN "InsufficientBalance"
    ELSE "ok"

AllowanceAfter(from, amount) ==
    IF allowances[from] # MaxUint256
        THEN [allowances EXCEPT ![from] = @ - amount]
        ELSE allowances

\* _transfer(from, to, amount)
Moved(from, to, amount) ==
    [h \in Holders |->
        IF h = from /\ h = to THEN balances[h]
        ELSE IF h = from THEN balances[h] - amount
        ELSE IF h = to THEN balances[h] + amount
        ELSE balances[h]]

\* the revert reason of transfer(to, amount) called by the engine, or "ok"
TransferErr(amount) ==
    IF balances[Engine] < amount THEN "InsufficientBalance" ELSE "ok"

\* ------------------------------------------------------------ Init
Init ==
    /\ now = GenesisTime
    /\ owner = Owner
    /\ agents = [a \in Agents |-> ZeroAgent]
    /\ proposals = <<>>
    /\ stakes = <<>>
    /\ proposalStakers = <<>>
    /\ activeProposalIds = <<>>
    /\ allProposalIds = <<>>
    /\ balances = [h \in Holders |-> IF h = Engine THEN 0 ELSE AGENT_ALLOCATION]
    /\ allowances = [a \in Agents |-> MaxUint256]
    /\ totalSupply = Cardinality(Agents) * AGENT_ALLOCATION
    /\ mintingFinished = FALSE
    /\ tokenOwner = Owner
    /\ vault = DeployedVault
    /\ stakedIn = <<>>
    /\ paidOut = <<>>
    /\ lossTimes = [a \in Agents |-> {}]
    /\ claimCount = <<>>
    /\ vaultCalls = {}
    /\ finalizations = <<>>
    /\ orchestrator = IdleOrchestrator
    /\ last = [op |-> "constructor", who |-> Owner, id |-> UnknownId, amount |-> 0,
               nonce |-> 0, events |-> <<>>]

\* the funding of an agent at deployment, as (minted balance, allowance given
\* to the engine): the full allocation with an unlimited approval, a small
\* balance, or a small approval
Fundings == {<<AGENT_ALLOCATION, MaxUint256>>, <<10, MaxUint256>>, <<AGENT_ALLOCATION, 10>>}

\* the state after construction when the agents are funded unequally
InitLedger ==
    /\ now = GenesisTime
    /\ owner = Owner
    /\ agents = [a \in Agents |-> ZeroAgent]
    /\ proposals = <<>>
    /\ stakes = <<>>
    /\ proposalStakers = <<>>
    /\ activeProposalIds = <<>>
    /\ allProposalIds = <<>>
    /\ \E f \in [Agents -> Fundings] :
            /\ balances = [h \in Holders |-> IF h = Engine THEN 0 ELSE f[h][1]]
            /\ allowances = [a \in Agents |-> f[a][2]]
            /\ totalSupply = f["mo"][1] + f["vox"][1]
    /\ mintingFinished = FALSE
    /\ tokenOwner = Owner
    /\ vault = DeployedVault
    /\ stakedIn = <<>>
    /\ paidOut = <<>>
    /\ lossTimes = [a \in Agents |-> {}]
    /\ claimCount = <<>>
    /\ vaultCalls = {}
    /\ finalizations = <<>>
    /\ orchestrator = IdleOrchestrator
    /\ last = [op |-> "constructor", who |-> Owner, id |-> UnknownId, amount |-> 0,
               nonce |-> 0, events |-> <<>>]

\* the record of a successful call; nonce counts the successful calls so far,
\* events are the events the call emitted, in order
Call(op, who, id, amount, events) ==
    [op |-> op, who |-> who, id |-> id, amount |-> amount, nonce |-> last.nonce + 1,
     events |-> events]

\* ------------------------------------------------------------ events
\* an emitted event is the tuple of its name and its arguments
CreateEvents(id, token, direction, sender, initialStake) ==
    << <<"ProposalCreated", id, token, direction, sender>>,
       <<"StakePlaced", id, sender, initialStake, TRUE>> >>

\* the events of stake: StakePlaced, then what _checkConsensus emits when it
\* takes the proposal from `before` to status `after`
StakeEvents(id, sender, amount, isFor, direction, totalStakeFor, before, after) ==
    << <<"StakePlaced", id, sender, amount, isFor>> >>
        \o (IF after = before THEN <<>>
            ELSE IF after = "Executed"
                THEN << <<"ConsensusReached", id, direction, totalStakeFor>> >>
            ELSE << <<"ProposalRejected", id>> >>)

\* the events of claimRewards: RewardClaimed for a winner, nothing for a
\* refund on an Expired proposal, AgentSlashed for a loser
ClaimEvents(id, sender, status, st) ==
    IF (status = "Executed" /\ st.isFor) \/ (status = "Rejected" /\ ~st.isFor)
        THEN << <<"RewardClaimed", sender, id,
                  st.amount + (st.amount * REWARD_BPS) \div BPS_DENOMINATOR>> >>
    ELSE IF status = "Expired" THEN <<>>
    ELSE << <<"AgentSlashed", sender, (st.amount * SLASH_BPS) \div BPS_DENOMINATOR>> >>

ExpireEvents(id) == << <<"ProposalExpired", id>> >>

\* the events that report a proposal's transition out of Pending
FinalizationEvents == {"ConsensusReached", "ProposalRejected", "ProposalExpired"}

\* the finalization count after a call that emitted `events`
Logged(log, events) ==
    LET final == {i \in 1..Len(events) : events[i][1] \in FinalizationEvents}
    IN  IF final = {} THEN log
        ELSE LET id == events[CHOOSE i \in final : TRUE][2]
             IN  Put(log, id, Tally(log, id) + Cardinality(final))


\* ------------------------------------------------------------ internal functions
\* _removeFromActive: swap the first match with the last element, then pop
RECURSIVE FirstIndex(_, _, _)
FirstIndex(seq, x, i) ==
    IF i > Len(seq) THEN 0
    ELSE IF seq[i] = x THEN i
    ELSE FirstIndex(seq, x, i + 1)

_removeFromActive(active, id) ==
    LET i == FirstIndex(active, id, 1)
        len == Len(active)
    IN  IF i = 0 THEN active
        ELSE SubSeq([active EXCEPT ![i] = active[len]], 1, len - 1)

\* mutant: a simple majority finalizes the proposal
_checkConsensus_Majority(status, totalStakeFor, totalStakeAgainst) ==
    LET totalStake == totalStakeFor + totalStakeAgainst
    IN  IF totalStake = 0 THEN status
        ELSE IF (totalStakeFor * BPS_DENOMINATOR) \div totalStake >= 5000 THEN "Executed"
        ELSE IF (totalStakeAgainst * BPS_DENOMINATOR) \div totalStake >= 5000 THEN "Rejected"
        ELSE status

\* mutant: a share of 40% is a quorum
_checkConsensus_Quorum40(status, totalStakeFor, totalStakeAgainst) ==
    LET totalStake == totalStakeFor + totalStakeAgainst
    IN  IF totalStake = 0 THEN status
        ELSE IF (totalStakeFor * BPS_DENOMINATOR) \div totalStake >= 4000 THEN "Executed"
        ELSE IF (totalStakeAgainst * BPS_DENOMINATOR) \div totalStake >= 4000 THEN "Rejected"
        ELSE status

\* mutant: the resolver never finalizes
_checkConsensus_Never(status, totalStakeFor, totalStakeAgainst) == status

\* _checkConsensus: the status a proposal in status `status` has after the
\* resolver ran on totals (totalStakeFor, totalStakeAgainst)
_checkConsensus(status, totalStakeFor, totalStakeAgainst) ==
    LET totalStake == totalStakeFor + totalStakeAgainst
    IN  IF totalStake = 0 THEN status
        ELSE LET forPercentage == (totalStakeFor * BPS_DENOMINATOR) \div totalStake
                 againstPercentage == (totalStakeAgainst * BPS_DENOMINATOR) \div totalStake
             IN  IF forPercentage >= QUORUM_BPS THEN "Executed"
                 ELSE IF againstPercentage >= QUORUM_BPS THEN "Rejected"
                 ELSE status

\* claimRewards: the classification and the three payout branches
WasWinner(status, isFor) ==
    \/ status = "Executed" /\ isFor
    \/ status = "Rejected" /\ ~isFor

\* mutant: the winner gets its stake back without the bonus
WinnerPayout_NoBonus(amount) == amount

WinnerPayout(amount) == amount + (amount * REWARD_BPS) \div BPS_DENOMINATOR

\* mutant: the slash is computed with the reward rate
LoserPayout_RewardRate(amount) == amount - (amount * REWARD_BPS) \div BPS_DENOMINATOR

\* mutant: the slash is rounded up
LoserPayout_CeilSlash(amount) ==
    amount - (amount * SLASH_BPS + BPS_DENOMINATOR - 1) \div BPS_DENOMINATOR

LoserPayout(amount) == amount - (amount * SLASH_BPS) \div BPS_DENOMINATOR

\* mutant: a stake on an Expired proposal is slashed like a losing one
Payout_ExpiredSlashed(status, st) ==
    IF WasWinner(status, st.isFor) THEN WinnerPayout(st.amount)
    ELSE LoserPayout(st.amount)

Payout(status, st) ==
    IF WasWinner(status, st.isFor) THEN WinnerPayout(st.amount)
    ELSE IF status = "Expired" THEN st.amount
    ELSE LoserPayout(st.amount)

\* mutant: the stake is not added to the agent's record
Staked_Unrecorded(a, amount) == agents

\* agent.totalStaked += amount
Staked(a, amount) == [agents EXCEPT ![a].totalStaked = @ + amount]

\* ------------------------------------------------------------ revert reasons
\* mutant: the cooldown still holds at cooldownUntil itself
CreateErr_Inclusive(sender, initialStake) ==
    IF ~agents[sender].registered THEN "NotRegisteredAgent"
    ELSE IF now <= agents[sender].cooldownUntil THEN "AgentOnCooldown"
    ELSE IF initialStake = 0 THEN "InsufficientStake"
    ELSE TransferFromErr(sender, initialStake)

\* mutant: a zero initial stake is accepted
CreateErr_NoZeroCheck(sender, initialStake) ==
    IF ~agents[sender].registered THEN "NotRegisteredAgent"
    ELSE IF now < agents[sender].cooldownUntil THEN "AgentOnCooldown"
    ELSE TransferFromErr(sender, initialStake)

CreateErr(sender, initialStake) ==
    IF ~agents[sender].registered THEN "NotRegisteredAgent"
    ELSE IF now < agents[sender].cooldownUntil THEN "AgentOnCooldown"
    ELSE IF initialStake = 0 THEN "InsufficientStake"
    ELSE TransferFromErr(sender, initialStake)

\* mutant: the duplicate check is missing
StakeErr_NoDuplicateCheck(sender, id, amount) ==
    IF ~agents[sender].registered THEN "NotRegisteredAgent"
    ELSE IF Prop(id).status # "Pending" THEN "ProposalNotActive"
    ELSE IF now >= Prop(id).expiresAt THEN "ProposalNotActive"
    ELSE IF amount = 0 THEN "InsufficientStake"
    ELSE TransferFromErr(sender, amount)

\* mutant: the cooldown check of createProposal is applied to stake as well
StakeErr_Cooldown(sender, id, amount) ==
    IF ~agents[sender].registered THEN "NotRegisteredAgent"
    ELSE IF now < agents[sender].cooldownUntil THEN "AgentOnCooldown"
    ELSE IF Prop(id).status # "Pending" THEN "ProposalNotActive"
    ELSE IF now >= Prop(id).expiresAt THEN "ProposalNotActive"
    ELSE IF StakeOf(id, sender).amount > 0 THEN "AlreadyStaked"
    ELSE IF amount = 0 THEN "InsufficientStake"
    ELSE TransferFromErr(sender, amount)

\* mutant: the expiry check is missing
StakeErr_NoExpiryCheck(sender, id, amount) ==
    IF ~agents[sender].registered THEN "NotRegisteredAgent"
    ELSE IF Prop(id).status # "Pending" THEN "ProposalNotActive"
    ELSE IF StakeOf(id, sender).amount > 0 THEN "AlreadyStaked"
    ELSE IF amount = 0 THEN "InsufficientStake"
    ELSE TransferFromErr(sender, amount)

\* mutant: a stake is still accepted at expiresAt itself
StakeErr_LateInclusive(sender, id, amount) ==
    IF ~agents[sender].registered THEN "NotRegisteredAgent"
    ELSE IF Prop(id).status # "Pending" THEN "ProposalNotActive"
    ELSE IF now > Prop(id).expiresAt THEN "ProposalNotActive"
    ELSE IF StakeOf(id, sender).amount > 0 THEN "AlreadyStaked"
    ELSE IF amount = 0 THEN "InsufficientStake"
    ELSE TransferFromErr(sender, amount)

StakeErr(sender, id, amount) ==
    IF ~agents[sender].registered THEN "NotRegisteredAgent"
    ELSE IF Prop(id).status # "Pending" THEN "ProposalNotActive"
    ELSE IF now >= Prop(id).expiresAt THEN "ProposalNotActive"
    ELSE IF StakeOf(id, sender).amount > 0 THEN "AlreadyStaked"
    ELSE IF amount = 0 THEN "InsufficientStake"
    ELSE TransferFromErr(sender, amount)

\* mutant: the check that the proposal is finalized is missing
ClaimErr_NoPendingCheck(sender, id) ==
    IF StakeOf(id, sender).amount = 0 THEN "InsufficientStake"
    ELSE IF StakeOf(id, sender).claimed THEN "AlreadyClaimed"
    ELSE IF Payout(Prop(id).status, StakeOf(id, sender)) > 0
        THEN TransferErr(Payout(Prop(id).status, StakeOf(id, sender)))
    ELSE "ok"

\* mutant: the check that the caller has a stake is missing
ClaimErr_NoStakeCheck(sender, id) ==
    IF Prop(id).status = "Pending" THEN "ProposalNotFinalized"
    ELSE IF StakeOf(id, sender).claimed THEN "AlreadyClaimed"
    ELSE IF Payout(Prop(id).status, StakeOf(id, sender)) > 0
        THEN TransferErr(Payout(Prop(id).status, StakeOf(id, sender)))
    ELSE "ok"

\* mutant: the credit is not checked against the balance in custody
ClaimErr_NoLedgerCheck(sender, id) ==
    IF Prop(id).status = "Pending" THEN "ProposalNotFinalized"
    ELSE IF StakeOf(id, sender).amount = 0 THEN "InsufficientStake"
    ELSE IF StakeOf(id, sender).claimed THEN "AlreadyClaimed"
    ELSE "ok"

ClaimErr(sender, id) ==
    IF Prop(id).status = "Pending" THEN "ProposalNotFinalized"
    ELSE IF StakeOf(id, sender).amount = 0 THEN "InsufficientStake"
    ELSE IF StakeOf(id, sender).claimed THEN "AlreadyClaimed"
    ELSE IF Payout(Prop(id).status, StakeOf(id, sender)) > 0
        THEN TransferErr(Payout(Prop(id).status, StakeOf(id, sender)))
    ELSE "ok"

ExpireErr(id) ==
    IF Prop(id).status # "Pending" THEN "ProposalNotActive"
    ELSE IF now < Prop(id).expiresAt THEN "ProposalNotFinalized"
    ELSE "ok"

\* ------------------------------------------------------------ external functions
\* a reverting call: the transaction's writes are rolled back
Reverted == UNCHANGED chainVars

\* the run may take another successful call
Budget == last.nonce < MaxCalls

createProposal(sender, token, direction, initialStake) ==
    LET err == CreateErr(sender, initialStake)
        proposalId == ProposalId(token, direction, now, sender)
        call == Call("createProposal", sender, proposalId, initialStake,
                     CreateEvents(proposalId, token, direction, sender, initialStake))
    IN  IF err # "ok" THEN Reverted
        ELSE    /\ Budget
                /\ Len(allProposalIds) < MaxProposals
                /\ proposals' = Put(proposals, proposalId,
                        [token |-> token, direction |-> direction, createdAt |-> now,
                         expiresAt |-> now + PROPOSAL_TIMEOUT,
                         totalStakeFor |-> initialStake, totalStakeAgainst |-> 0,
                         status |-> "Pending", creator |-> sender])
                /\ stakes' = Put(stakes, <<proposalId, sender>>,
                        [amount |-> initialStake, isFor |-> TRUE, claimed |-> FALSE])
                /\ proposalStakers' = Put(proposalStakers, proposalId,
                        Append(StakersOf(proposalId), sender))
                /\ agents' = Staked(sender, initialStake)
                /\ balances' = Moved(sender, Engine, initialStake)
                /\ allowances' = AllowanceAfter(sender, initialStake)
                /\ activeProposalIds' = Append(activeProposalIds, proposalId)
                /\ allProposalIds' = Append(allProposalIds, proposalId)
                /\ stakedIn' = Put(stakedIn, proposalId, Tally(stakedIn, proposalId) + initialStake)
                /\ last' = call
                /\ UNCHANGED <<now, owner, paidOut, lossTimes, claimCount, vaultCalls,
                               finalizations, mintVars, vaultVars>>

stake(sender, proposalId, amount, isFor) ==
    LET err == StakeErr(sender, proposalId, amount)
        proposal == Prop(proposalId)
        totalStakeFor == proposal.totalStakeFor + (IF isFor THEN amount ELSE 0)
        totalStakeAgainst == proposal.totalStakeAgainst + (IF isFor THEN 0 ELSE amount)
        status == _checkConsensus(proposal.status, totalStakeFor, totalStakeAgainst)
        call == Call("stake", sender, proposalId, amount,
                     StakeEvents(proposalId, sender, amount, isFor, proposal.direction,
                                 totalStakeFor, proposal.status, status))
    IN  IF err # "ok" THEN Reverted
        ELSE /\ Budget
             /\ stakes' = Put(stakes, <<proposalId, sender>>,
                     [amount |-> amount, isFor |-> isFor, claimed |-> FALSE])
             /\ proposalStakers' = Put(proposalStakers, proposalId,
                     Append(StakersOf(proposalId), sender))
             /\ agents' = Staked(sender, amount)
             /\ proposals' = Put(proposals, proposalId,
                     [proposal EXCEPT !.totalStakeFor = totalStakeFor,
                                      !.totalStakeAgainst = totalStakeAgainst,
                                      !.status = status])
             /\ balances' = Moved(sender, Engine, amount)
             /\ allowances' = AllowanceAfter(sender, amount)
             /\ activeProposalIds' =
                    IF status # proposal.status
                        THEN _removeFromActive(activeProposalIds, proposalId)
                        ELSE activeProposalIds
             /\ stakedIn' = Put(stakedIn, proposalId, Tally(stakedIn, proposalId) + amount)
             \* the call of vault.executeSimpleTrade in _checkConsensus is
             \* commented out: no status change reaches the vault
             /\ vaultCalls' = vaultCalls
             /\ finalizations' = Logged(finalizations, call.events)
             /\ last' = call
             /\ UNCHANGED <<now, owner, allProposalIds, paidOut, lossTimes, claimCount,
                            mintVars, vaultVars>>

claimRewards(sender, proposalId) ==
    LET err == ClaimErr(sender, proposalId)
        status == Prop(proposalId).status
        userStake == StakeOf(proposalId, sender)
        payout == Payout(status, userStake)
        call == Call("claimRewards", sender, proposalId, payout,
                     ClaimEvents(proposalId, sender, status, userStake))
    IN  IF err # "ok" THEN Reverted
        ELSE /\ Budget
             /\ stakes' = Put(stakes, <<proposalId, sender>>,
                     [userStake EXCEPT !.claimed = TRUE])
             /\ agents' =
                    IF WasWinner(status, userStake.isFor)
                        THEN [agents EXCEPT ![sender].wins = @ + 1]
                    ELSE IF status = "Expired" THEN agents
                    ELSE [agents EXCEPT ![sender].losses = @ + 1,
                                        ![sender].cooldownUntil = now + COOLDOWN_PERIOD]
             /\ lossTimes' =
                    IF ~WasWinner(status, userStake.isFor) /\ status # "Expired"
                        THEN [lossTimes EXCEPT ![sender] = @ \cup {now}]
                        ELSE lossTimes
             /\ balances' = IF payout > 0 THEN Moved(Engine, sender, payout) ELSE balances
             /\ paidOut' = Put(paidOut, proposalId, Tally(paidOut, proposalId) + payout)
             /\ claimCount' = Put(claimCount, <<proposalId, sender>>,
                     Tally(claimCount, <<proposalId, sender>>) + 1)
             /\ last' = call
             /\ UNCHANGED <<now, owner, proposals, proposalStakers, activeProposalIds,
                            allProposalIds, allowances, stakedIn, vaultCalls,
                            finalizations, mintVars, vaultVars>>

expireProposal(sender, proposalId) ==
    LET err == ExpireErr(proposalId)
        call == Call("expireProposal", sender, proposalId, 0, ExpireEvents(proposalId))
    IN  IF err # "ok" THEN Reverted
        ELSE /\ Budget
             /\ proposals' = Put(proposals, proposalId,
                     [Prop(proposalId) EXCEPT !.status = "Expired"])
             /\ activeProposalIds' = _removeFromActive(activeProposalIds, proposalId)
             /\ finalizations' = Logged(finalizations, call.events)
             /\ last' = call
             /\ UNCHANGED <<now, owner, agents, stakes, proposalStakers, allProposalIds,
                            ledgerVars, mintVars, vaultVars, transferVars, vaultCalls>>

\* mutant: registerAgent is open to every caller
RegisterErr_NoOwnerCheck(sender, agent) ==
    IF agent = NoAddr THEN "ZeroAddress"
    ELSE "ok"

\* the revert reason of registerAgent(agent), or "ok"
RegisterErr(sender, agent) ==
    IF sender # owner THEN "NotOwner"
    ELSE IF agent = NoAddr THEN "ZeroAddress"
    ELSE "ok"

registerAgent(sender, agent) ==
    LET err == RegisterErr(sender, agent)
    IN  IF err # "ok" THEN Reverted
        ELSE /\ agents' = [agents EXCEPT ![agent].registered = TRUE]
             /\ UNCHANGED <<now, owner, proposals, stakes, proposalStakers,
                            activeProposalIds, allProposalIds, ledgerVars, mintVars, vaultVars,
                            historyVars, last>>

\* ------------------------------------------------------------ time
\* the deadlines the engine compares block.timestamp with
Deadlines ==
    {proposals[id].expiresAt : id \in DOMAIN proposals}
        \cup {agents[a].cooldownUntil : a \in Agents}

\* the next block is mined at a deadline
WarpTargets == {t \in Deadlines : t > now}

Warp(t) ==
    /\ now' = t
    /\ UNCHANGED <<engineVars, ledgerVars, mintVars, vaultVars, historyVars, last>>

\* ------------------------------------------------------------ specification
Next ==
    \/ \E s \in Agents, tk \in Tokens, d \in Directions, a \in Amounts :
          createProposal(s, tk, d, a) /\ UNCHANGED orchVars
    \/ \E s \in Agents, id \in KnownIds, a \in Amounts, f \in BOOLEAN :
          stake(s, id, a, f) /\ UNCHANGED orchVars
    \/ \E s \in Agents, id \in KnownIds : claimRewards(s, id) /\ UNCHANGED orchVars
    \/ \E s \in Agents, id \in KnownIds : expireProposal(s, id) /\ UNCHANGED orchVars
    \/ \E s \in Agents \cup {Owner}, a \in Agents \cup {NoAddr} : registerAgent(s, a)
          /\ UNCHANGED orchVars
    \/ \E t \in WarpTargets : Warp(t) /\ UNCHANGED orchVars

Spec == Init /\ [][Next]_vars

\* the engine over a ledger on which balances and allowances may fall short
SpecLedger == InitLedger /\ [][Next]_vars

\* ------------------------------------------------------------ settlement of small stakes
\* the stake amounts of the settled proposal: around the amounts at which the
\* 5% bonus and the 10% slash stop rounding to zero
StakeAmounts == {1, 9, 10, 19, 20}

\* the state in which mo has created a proposal with stake f at deployment
\* time and vox's stake of g against it, in the same block, has finalized it
InitSettle ==
    \E f \in StakeAmounts, g \in StakeAmounts :
        LET X == ProposalId("tok", "Long", GenesisTime, "mo")
            status == _checkConsensus("Pending", f, g)
        IN  /\ status # "Pending"
            /\ now = GenesisTime
            /\ owner = Owner
            /\ agents = [a \in Agents |->
                    [ZeroAgent EXCEPT !.registered = TRUE,
                                      !.totalStaked = IF a = "mo" THEN f ELSE g]]
            /\ proposals = X :> [token |-> "tok", direction |-> "Long",
                                 createdAt |-> GenesisTime,
                                 expiresAt |-> GenesisTime + PROPOSAL_TIMEOUT,
                                 totalStakeFor |-> f, totalStakeAgainst |-> g,
                                 status |-> status, creator |-> "mo"]
            /\ stakes = (<<X, "mo">> :> [amount |-> f, isFor |-> TRUE, claimed |-> FALSE])
                          @@ (<<X, "vox">> :> [amount |-> g, isFor |-> FALSE, claimed |-> FALSE])
            /\ proposalStakers = X :> <<"mo", "vox">>
            /\ activeProposalIds = <<>>
            /\ allProposalIds = <<X>>
            /\ balances = [h \in Holders |->
                    IF h = Engine THEN f + g
                    ELSE IF h = "mo" THEN AGENT_ALLOCATION - f
                    ELSE AGENT_ALLOCATION - g]
            /\ allowances = [a \in Agents |-> MaxUint256]
            /\ totalSupply = Cardinality(Agents) * AGENT_ALLOCATION
            /\ mintingFinished = FALSE
            /\ tokenOwner = Owner
            /\ vault = DeployedVault
            /\ stakedIn = X :> (f + g)
            /\ paidOut = <<>>
            /\ lossTimes = [a \in Agents |-> {}]
            /\ claimCount = <<>>
            /\ vaultCalls = {}
            /\ finalizations = X :> 1
            /\ orchestrator = IdleOrchestrator
            /\ last = [op |-> "stake", who |-> "vox", id |-> X, amount |-> g, nonce |-> 2,
                       events |-> StakeEvents(X, "vox", g, FALSE, "Long", f, "Pending", status)]

SpecSettle == InitSettle /\ [][Next]_vars

\* ------------------------------------------------------------ BarrelToken minting
\* the callers of the token's owner functions and the recipients of a mint
Minters == {Owner, "mo"}
Recipients == Agents \cup {NoAddr}
MintAmounts == {10, 20}

\* the state after the construction of BarrelToken and BarrelConsensus,
\* before anything is minted
InitToken ==
    /\ now = GenesisTime
    /\ owner = Owner
    /\ agents = [a \in Agents |-> ZeroAgent]
    /\ proposals = <<>>
    /\ stakes = <<>>
    /\ proposalStakers = <<>>
    /\ activeProposalIds = <<>>
    /\ allProposalIds = <<>>
    /\ balances = [h \in Holders |-> 0]
    /\ allowances = [a \in Agents |-> 0]
    /\ totalSupply = 0
    /\ mintingFinished = FALSE
    /\ tokenOwner = Owner
    /\ vault = DeployedVault
    /\ stakedIn = <<>>
    /\ paidOut = <<>>
    /\ lossTimes = [a \in Agents |-> {}]
    /\ claimCount = <<>>
    /\ vaultCalls = {}
    /\ finalizations = <<>>
    /\ orchestrator = IdleOrchestrator
    /\ last = [op |-> "constructor", who |-> Owner, id |-> UnknownId, amount |-> 0,
               nonce |-> 0, events |-> <<>>]

\* mutant: minting is not closed by finishMinting
MintErr_NoFinishCheck(sender, to) ==
    IF sender # tokenOwner THEN "NotOwner"
    ELSE IF to = NoAddr THEN "ZeroAddress"
    ELSE "ok"

\* the revert reason of mint(to, amount): onlyOwner, canMint, then the body
MintErr(sender, to) ==
    IF sender # tokenOwner THEN "NotOwner"
    ELSE IF mintingFinished THEN "MintingFinished"
    ELSE IF to = NoAddr THEN "ZeroAddress"
    ELSE "ok"

mint(sender, to, amount) ==
    IF MintErr(sender, to) # "ok" THEN Reverted
    ELSE /\ Budget
         /\ totalSupply' = totalSupply + amount
         /\ balances' = [balances EXCEPT ![to] = @ + amount]
         /\ last' = Call("mint", sender, UnknownId, amount,
                         << <<"Transfer", NoAddr, to, amount>> >>)
         /\ UNCHANGED <<now, engineVars, allowances, mintingFinished, tokenOwner,
                        vaultVars, historyVars>>

finishMinting(sender) ==
    IF sender # tokenOwner THEN Reverted
    ELSE /\ Budget
         /\ mintingFinished' = TRUE
         /\ last' = Call("finishMinting", sender, UnknownId, 0, <<>>)
         /\ UNCHANGED <<now, engineVars, ledgerVars, totalSupply, tokenOwner, vaultVars,
                        historyVars>>

\* BarrelToken.renounceOwnership
renounceTokenOwnership(sender) ==
    IF sender # tokenOwner THEN Reverted
    ELSE /\ Budget
         /\ tokenOwner' = NoAddr
         /\ last' = Call("renounceOwnership", sender, UnknownId, 0, <<>>)
         /\ UNCHANGED <<now, engineVars, ledgerVars, totalSupply, mintingFinished,
                        vaultVars, historyVars>>

NextToken ==
    \/ \E s \in Minters, to \in Recipients, a \in MintAmounts : mint(s, to, a)
          /\ UNCHANGED orchVars
    \/ \E s \in Minters : finishMinting(s) /\ UNCHANGED orchVars
    \/ \E s \in Minters : renounceTokenOwnership(s) /\ UNCHANGED orchVars

SpecToken == InitToken /\ [][NextToken]_vars

\* ------------------------------------------------------------ helpers of the properties
Range(seq) == {seq[i] : i \in 1..Len(seq)}

SetMax(S) == CHOOSE x \in S : \A y \in S : y <= x

\* the participants with a stake on a proposal
Stakers(id) == {a \in Agents : StakeOf(id, a).amount > 0}

\* the number of createProposal calls that produced this identifier
TimesCreated(id) == Cardinality({i \in 1..Len(allProposalIds) : allProposalIds[i] = id})

AllClaimed(id) == Stakers(id) # {} /\ \A a \in Stakers(id) : StakeOf(id, a).claimed

\* the step is a successful call of `op` by `a` on `id`
Step(op, a, id) ==
    /\ last'.nonce = last.nonce + 1
    /\ last'.op = op
    /\ last'.who = a
    /\ last'.id = id

\* ------------------------------------------------------------ C1
\* C1 (as claimed): for every proposal, created by a single createProposal
\* call, all of whose stakers have claimed, the value staked on it equals the
\* value paid out for it plus a retained amount that is not negative:
\* settlement never pays out more than was staked on the proposal.
C1_Conservation ==
    \A id \in DOMAIN proposals :
        TimesCreated(id) = 1 /\ AllClaimed(id) =>
            \E retained \in 0..Tally(stakedIn, id) :
                Tally(stakedIn, id) = Tally(paidOut, id) + retained

\* ------------------------------------------------------------ C2
\* C2 (as claimed): once a participant has claimed on a proposal, every later
\* claimRewards call of that participant on that proposal fails with
\* AlreadyClaimed, and no (proposal, participant) pair is ever paid twice.
C2_IdempotentClaim ==
    \A id \in KnownIds, a \in Agents :
        /\ Tally(claimCount, <<id, a>>) <= 1
        /\ Tally(claimCount, <<id, a>>) >= 1 => ClaimErr(a, id) = "AlreadyClaimed"

\* ------------------------------------------------------------ C3
\* C3 (as claimed): a proposal whose status is Executed, Rejected or Expired
\* keeps that status in every later step, whatever the call.
C3_TerminalIrreversible ==
    [][\A id \in DOMAIN proposals :
          proposals[id].status # "Pending" =>
              proposals'[id].status = proposals[id].status]_vars

\* ------------------------------------------------------------ C4
\* C4 (as claimed): a stake call by a participant who already has a stake on
\* the proposal fails with AlreadyStaked, whatever the status and the time.
C4_AlwaysAlreadyStaked ==
    \A id \in KnownIds, a \in Agents, amt \in Amounts :
        StakeOf(id, a).amount > 0 => StakeErr(a, id, amt) = "AlreadyStaked"

\* C4 (amended): a stake call by a participant who already has a stake on the
\* proposal always fails: with AlreadyStaked while the proposal is Pending and
\* unexpired, with ProposalNotActive otherwise.
C4_SecondStakeFails ==
    \A id \in KnownIds, a \in Agents, amt \in Amounts :
        StakeOf(id, a).amount > 0 =>
            StakeErr(a, id, amt) =
                IF Prop(id).status = "Pending" /\ now < Prop(id).expiresAt
                    THEN "AlreadyStaked"
                    ELSE "ProposalNotActive"

\* a participant has just staked on a proposal that is still Pending and
\* unexpired, so that a second stake call meets the duplicate check
C4_Witness ==
    /\ last.op = "stake"
    /\ Prop(last.id).status = "Pending"
    /\ now < Prop(last.id).expiresAt
    /\ StakeOf(last.id, last.who).amount > 0

\* ------------------------------------------------------------ C5
\* C5: right after every successful stake call, with F = totalStakeFor and
\* A = totalStakeAgainst, the status is Executed if floor(F*10000/(F+A)) >= 6600,
\* otherwise Rejected if floor(A*10000/(F+A)) >= 6600, otherwise Pending.
C5_QuorumRule ==
    last.op = "stake" =>
        LET F == Prop(last.id).totalStakeFor
            A == Prop(last.id).totalStakeAgainst
        IN  /\ F + A > 0
            /\ Prop(last.id).status =
                   IF (F * 10000) \div (F + A) >= 6600 THEN "Executed"
                   ELSE IF (A * 10000) \div (F + A) >= 6600 THEN "Rejected"
                   ELSE "Pending"

\* a stake has just left the proposal Pending with stake on both sides
C5_Witness ==
    /\ last.op = "stake"
    /\ Prop(last.id).status = "Pending"
    /\ Prop(last.id).totalStakeFor > 0
    /\ Prop(last.id).totalStakeAgainst > 0

\* ------------------------------------------------------------ C6
\* C6 (as claimed): for every time t at which the agent was settled as a
\* loser, createProposal before t + 60 fails with AgentOnCooldown, and
\* createProposal with a non-zero stake the agent can cover succeeds at any
\* time from t + 60 on.
C6_CooldownAfterAnyLoss ==
    \A a \in Agents, amt \in Amounts \ {0} :
        \A t \in lossTimes[a] :
            /\ now < t + 60 => CreateErr(a, amt) = "AgentOnCooldown"
            /\ now >= t + 60 /\ balances[a] >= amt => CreateErr(a, amt) = "ok"

\* C6 (amended): with t the time of the agent's latest settlement as a loser,
\* createProposal before t + 60 fails with AgentOnCooldown, and createProposal
\* with a non-zero stake the agent can cover succeeds at any time from t + 60 on.
C6_CooldownAfterLatestLoss ==
    \A a \in Agents, amt \in Amounts \ {0} :
        lossTimes[a] # {} =>
            LET t == SetMax(lossTimes[a])
            IN  /\ now < t + 60 => CreateErr(a, amt) = "AgentOnCooldown"
                /\ now >= t + 60 /\ balances[a] >= amt => CreateErr(a, amt) = "ok"

\* an agent that was settled as a loser has created a proposal at the very
\* end of its cooldown
C6_Witness ==
    /\ last.op = "createProposal"
    /\ lossTimes[last.who] # {}
    /\ last.id[3] = SetMax(lossTimes[last.who]) + 60

\* ------------------------------------------------------------ C7
\* C7: an agent on cooldown stakes successfully on a Pending, unexpired
\* proposal on which it has no stake (non-zero amount it can cover), and
\* claims successfully on a finalized proposal on which it has an unclaimed
\* stake (custody covering the payout): the cooldown fails neither call.
C7_CooldownGatesCreationOnly ==
    \A a \in Agents, id \in KnownIds :
        agents[a].registered /\ now < agents[a].cooldownUntil =>
            /\ \A amt \in Amounts \ {0} :
                   /\ Prop(id).status = "Pending"
                   /\ now < Prop(id).expiresAt
                   /\ StakeOf(id, a).amount = 0
                   /\ balances[a] >= amt
                   => StakeErr(a, id, amt) = "ok"
            /\ /\ Prop(id).status # "Pending"
               /\ StakeOf(id, a).amount > 0
               /\ ~StakeOf(id, a).claimed
               /\ balances[Engine] >=
                      StakeOf(id, a).amount + (StakeOf(id, a).amount * 500) \div 10000
               => ClaimErr(a, id) = "ok"

\* an agent has staked on another agent's proposal while on cooldown
C7_Witness ==
    /\ last.op = "stake"
    /\ now < agents[last.who].cooldownUntil
    /\ Prop(last.id).creator # last.who
    /\ StakeOf(last.id, last.who).amount = last.amount

\* ------------------------------------------------------------ C8
\* C8 (as claimed): expireProposal on a Pending proposal fails with
\* ProposalNotFinalized before expiresAt and succeeds from expiresAt on; on a
\* proposal that is not Pending it fails with ProposalNotActive; right after
\* it succeeded the proposal is Expired and is not in the active set.
C8_Expiry ==
    /\ \A id \in KnownIds :
           ExpireErr(id) =
               IF Prop(id).status # "Pending" THEN "ProposalNotActive"
               ELSE IF now < Prop(id).expiresAt THEN "ProposalNotFinalized"
               ELSE "ok"
    /\ last.op = "expireProposal" =>
           /\ Prop(last.id).status = "Expired"
           /\ last.id \notin Range(activeProposalIds)

\* ------------------------------------------------------------ C9
\* C9: a successful claimRewards settles the stake as a winner exactly when
\* the status is Executed and the stake is for, or the status is Rejected and
\* the stake is against; it then transfers amount + floor(amount*500/10000)
\* to the claimant, adds one win, and leaves losses and cooldownUntil alone.
C9_WinnerSettlement ==
    [][\A a \in Agents, id \in KnownIds :
          Step("claimRewards", a, id) =>
              LET st == StakeOf(id, a)
                  won == \/ Prop(id).status = "Executed" /\ st.isFor
                         \/ Prop(id).status = "Rejected" /\ ~st.isFor
              IN  /\ won <=> agents'[a].wins = agents[a].wins + 1
                  /\ ~won => agents'[a].wins = agents[a].wins
                  /\ won =>
                        /\ balances'[a] = balances[a] + st.amount + (st.amount * 500) \div 10000
                        /\ balances'[Engine] =
                               balances[Engine] - (st.amount + (st.amount * 500) \div 10000)
                        /\ agents'[a].losses = agents[a].losses
                        /\ agents'[a].cooldownUntil = agents[a].cooldownUntil]_vars

\* a winner of an Executed proposal has claimed a payout that carries a bonus
C9_Witness ==
    /\ last.op = "claimRewards"
    /\ Prop(last.id).status = "Executed"
    /\ StakeOf(last.id, last.who).isFor
    /\ StakeOf(last.id, last.who).claimed
    /\ last.amount > StakeOf(last.id, last.who).amount
    /\ agents[last.who].wins = 1

\* ------------------------------------------------------------ C10
\* C10: a successful claimRewards at time t on a stake on the losing side of
\* an Executed or Rejected proposal transfers amount - floor(amount*1000/10000)
\* to the claimant, adds one loss, sets cooldownUntil to t + 60 and leaves the
\* win count alone.
C10_LoserSettlement ==
    [][\A a \in Agents, id \in KnownIds :
          Step("claimRewards", a, id) =>
              LET st == StakeOf(id, a)
                  lost == \/ Prop(id).status = "Executed" /\ ~st.isFor
                          \/ Prop(id).status = "Rejected" /\ st.isFor
              IN  lost =>
                     /\ balances'[a] = balances[a] + st.amount - (st.amount * 1000) \div 10000
                     /\ balances'[Engine] =
                            balances[Engine] - (st.amount - (st.amount * 1000) \div 10000)
                     /\ agents'[a].losses = agents[a].losses + 1
                     /\ agents'[a].cooldownUntil = now + 60
                     /\ agents'[a].wins = agents[a].wins]_vars

\* the creator of a Rejected proposal has claimed its slashed stake
C10_Witness ==
    /\ last.op = "claimRewards"
    /\ Prop(last.id).status = "Rejected"
    /\ StakeOf(last.id, last.who).isFor
    /\ StakeOf(last.id, last.who).claimed
    /\ last.amount < StakeOf(last.id, last.who).amount
    /\ agents[last.who].losses = 1
    /\ agents[last.who].cooldownUntil = now + 60

\* ------------------------------------------------------------ C11
\* C11: a successful claimRewards on a stake (for or against) on an Expired
\* proposal transfers exactly the staked amount from custody to the claimant
\* and leaves the claimant's wins, losses and cooldownUntil unchanged.
C11_ExpiredRefund ==
    [][\A a \in Agents, id \in KnownIds :
          Step("claimRewards", a, id) /\ Prop(id).status = "Expired" =>
              /\ balances'[a] = balances[a] + StakeOf(id, a).amount
              /\ balances'[Engine] = balances[Engine] - StakeOf(id, a).amount
              /\ agents'[a].wins = agents[a].wins
              /\ agents'[a].losses = agents[a].losses
              /\ agents'[a].cooldownUntil = agents[a].cooldownUntil]_vars

\* a staker against an Expired proposal has claimed its refund
C11_Witness ==
    /\ last.op = "claimRewards"
    /\ Prop(last.id).status = "Expired"
    /\ ~StakeOf(last.id, last.who).isFor
    /\ StakeOf(last.id, last.who).claimed
    /\ last.amount = StakeOf(last.id, last.who).amount
    /\ last.amount > 0
    /\ agents[last.who].wins = 0
    /\ agents[last.who].losses = 0

C13_TotalsFrozen ==
    [][\A id \in DOMAIN proposals :
          proposals[id].status # "Pending" =>
              /\ proposals'[id].totalStakeFor = proposals[id].totalStakeFor
              /\ proposals'[id].totalStakeAgainst = proposals[id].totalStakeAgainst
              /\ proposalStakers'[id] = proposalStakers[id]]_vars

\* ------------------------------------------------------------ C14
\* C14: whenever a proposal is Pending, before or after expiresAt, a
\* claimRewards call on it fails with ProposalNotFinalized for every caller,
\* and no step is a successful claim on a Pending proposal: nothing is
\* transferred, no claimed flag and no agent record changes.
C14_ClaimOnPendingFails ==
    /\ [](\A id \in KnownIds, a \in Agents :
              Prop(id).status = "Pending" => ClaimErr(a, id) = "ProposalNotFinalized")
    /\ [][\A id \in KnownIds, a \in Agents :
              Prop(id).status = "Pending" =>
                  /\ ~Step("claimRewards", a, id)
                  /\ Tally(claimCount', <<id, a>>) = Tally(claimCount, <<id, a>>)
                  /\ Tally(paidOut', id) = Tally(paidOut, id)]_vars

\* a proposal is Pending past its expiry time and holds an unclaimed stake
\* that custody could refund
C14_Witness ==
    \E id \in KnownIds, a \in Agents :
        /\ Prop(id).status = "Pending"
        /\ now >= Prop(id).expiresAt
        /\ StakeOf(id, a).amount > 0
        /\ ~StakeOf(id, a).claimed
        /\ balances[Engine] >= StakeOf(id, a).amount

\* ------------------------------------------------------------ C15
\* C15: on a finalized proposal, a claimRewards call by a participant without
\* a stake on it fails (InsufficientStake), and every successful claimRewards
\* step is made by a participant with a stake on the proposal, who is the
\* only holder whose balance grows.
C15_OnlyStakersArePaid ==
    /\ [](\A id \in KnownIds, a \in Agents :
              Prop(id).status # "Pending" /\ StakeOf(id, a).amount = 0 =>
                  ClaimErr(a, id) = "InsufficientStake")
    /\ [][\A id \in KnownIds, a \in Agents :
              Step("claimRewards", a, id) =>
                  /\ StakeOf(id, a).amount > 0
                  /\ a \in Range(StakersOf(id))
                  /\ \A b \in Agents \ {a} : balances'[b] = balances[b]]_vars

\* a proposal is finalized, custody holds value, and a registered agent has
\* no stake on the proposal
C15_Witness ==
    \E id \in KnownIds, a \in Agents :
        /\ Prop(id).status # "Pending"
        /\ agents[a].registered
        /\ StakeOf(id, a).amount = 0
        /\ balances[Engine] > 0

\* ------------------------------------------------------------ C16
\* C16: createProposal and stake fail atomically.  A step changes a proposal,
\* a stake record, a list of stakers, the active set, the list of proposals,
\* an agent's totalStaked or a ledger balance or allowance only as part of a
\* call that succeeded, and a createProposal or stake call succeeds only when
\* every precondition held and the ledger accepted the debit (balance and
\* allowance cover the amount), which then moved exactly the amount into
\* custody.
DebitAccepted(a, amt) ==
    /\ amt > 0
    /\ balances[a] >= amt
    /\ allowances[a] = MaxUint256 \/ allowances[a] >= amt
    /\ balances'[a] = balances[a] - amt
    /\ balances'[Engine] = balances[Engine] + amt
    /\ agents'[a].totalStaked = agents[a].totalStaked + amt

C16_AtomicStakeFailure ==
    [][/\ \A a \in Agents, id \in DOMAIN proposals' :
              Step("stake", a, id) =>
                  /\ agents[a].registered
                  /\ Prop(id).status = "Pending"
                  /\ now < Prop(id).expiresAt
                  /\ StakeOf(id, a).amount = 0
                  /\ DebitAccepted(a, last'.amount)
       /\ \A a \in Agents, id \in DOMAIN proposals' :
              Step("createProposal", a, id) =>
                  /\ agents[a].registered
                  /\ now >= agents[a].cooldownUntil
                  /\ DebitAccepted(a, last'.amount)
       /\ last'.nonce = last.nonce =>
              /\ UNCHANGED <<proposals, stakes, proposalStakers, activeProposalIds,
                             allProposalIds, balances, allowances>>
              /\ \A a \in Agents : agents'[a].totalStaked = agents[a].totalStaked]_vars

\* a proposal has just been created and the ledger would reject the debit of
\* a stake on it by a registered agent without a stake on it
C16_Witness ==
    /\ last.op = "createProposal"
    /\ \E a \in Agents :
           /\ agents[a].registered
           /\ StakeOf(last.id, a).amount = 0
           /\ StakeErr(a, last.id, 20) \in {"InsufficientBalance", "InsufficientAllowance"}

\* ------------------------------------------------------------ C17
\* C17: when custody holds less than the payout of an unclaimed stake on a
\* finalized proposal, claimRewards fails (InsufficientBalance) and changes
\* nothing: a claimed flag that is false stays false in every step that is
\* not a successful claim of that stake, the agent's wins, losses and
\* cooldownUntil change only in claims that succeed, and as soon as custody
\* covers the payout the same participant's claim succeeds.
C17_FailedCreditLeavesClaimOpen ==
    /\ [](\A id \in KnownIds, a \in Agents :
              /\ Prop(id).status # "Pending"
              /\ StakeOf(id, a).amount > 0
              /\ ~StakeOf(id, a).claimed
              => ClaimErr(a, id) =
                     IF balances[Engine] < Payout(Prop(id).status, StakeOf(id, a))
                         THEN "InsufficientBalance"
                         ELSE "ok")
    /\ [][\A id \in KnownIds, a \in Agents :
              /\ Step("claimRewards", a, id) =>
                     /\ balances[Engine] >= last'.amount
                     /\ balances'[Engine] = balances[Engine] - last'.amount
              /\ ~Step("claimRewards", a, id) /\ StakeOf(id, a).amount > 0
                     /\ ~StakeOf(id, a).claimed =>
                     ~stakes'[<<id, a>>].claimed
              /\ (\A i \in KnownIds : ~Step("claimRewards", a, i)) =>
                     /\ agents'[a].wins = agents[a].wins
                     /\ agents'[a].losses = agents[a].losses
                     /\ agents'[a].cooldownUntil = agents[a].cooldownUntil]_vars

\* a winner's claim is rejected by the ledger: custody holds less than the
\* payout of its unclaimed stake
C17_Witness ==
    \E id \in KnownIds, a \in Agents :
        /\ Prop(id).status = "Executed"
        /\ StakeOf(id, a).isFor
        /\ ~StakeOf(id, a).claimed
        /\ ClaimErr(a, id) = "InsufficientBalance"
        /\ agents[a].wins = 0

\* ------------------------------------------------------------ C18
\* C18 (as claimed): right after a successful createProposal(token, direction, s)
\* at time t by agent c the proposal is Pending with createdAt = t,
\* expiresAt = t + 30, totalStakeFor = s, totalStakeAgainst = 0, creator = c;
\* its only stake is an unclaimed for-stake of s by c; it is in the active
\* set; and exactly s has moved from c's balance into custody.
C18_CreatedProposal ==
    [][\A c \in Agents, id \in DOMAIN proposals' :
          Step("createProposal", c, id) =>
              LET p == proposals'[id]
                  s == last'.amount
              IN  /\ s > 0
                  /\ p.status = "Pending"
                  /\ p.createdAt = now
                  /\ p.expiresAt = now + 30
                  /\ p.totalStakeFor = s
                  /\ p.totalStakeAgainst = 0
                  /\ p.creator = c
                  /\ stakes'[<<id, c>>] = [amount |-> s, isFor |-> TRUE, claimed |-> FALSE]
                  /\ proposalStakers'[id] = <<c>>
                  /\ \A b \in Agents \ {c} : <<id, b>> \notin DOMAIN stakes'
                  /\ id \in Range(activeProposalIds')
                  /\ balances'[c] = balances[c] - s
                  /\ balances'[Engine] = balances[Engine] + s]_vars

\* ------------------------------------------------------------ C19
\* C19 (as claimed): every successful createProposal yields an identifier
\* that no existing proposal has, so that it leaves every existing proposal
\* and every existing stake record as it was.
C19_FreshIdentifier ==
    [][\A c \in Agents, id \in DOMAIN proposals' :
          Step("createProposal", c, id) =>
              /\ id \notin DOMAIN proposals
              /\ \A i \in DOMAIN proposals : proposals'[i] = proposals[i]
              /\ \A k \in DOMAIN stakes : stakes'[k] = stakes[k]]_vars

\* ------------------------------------------------------------ C20
\* C20 (as claimed): every proposal with direction Long or Short that is
\* Executed has been passed to the vault for execution, and no proposal that
\* is not Executed has been.
C20_VaultNotified ==
    \A id \in DOMAIN proposals :
        /\ proposals[id].status = "Executed" /\ proposals[id].direction \in {"Long", "Short"}
               => id \in vaultCalls
        /\ id \in vaultCalls
               => proposals[id].status = "Executed" /\ proposals[id].direction # "Hold"

\* ------------------------------------------------------------ C21
\* C21 (as claimed): the active set holds every Pending proposal exactly once
\* and no proposal that is Executed, Rejected or Expired, so that its length
\* (getActiveProposalCount) is the number of Pending proposals.
Occurrences(seq, x) == Cardinality({i \in 1..Len(seq) : seq[i] = x})

C21_ActiveSetConsistent ==
    /\ \A id \in DOMAIN proposals :
           Occurrences(activeProposalIds, id) =
               IF proposals[id].status = "Pending" THEN 1 ELSE 0
    /\ Len(activeProposalIds) =
           Cardinality({id \in DOMAIN proposals : proposals[id].status = "Pending"})

\* ------------------------------------------------------------ C22
RECURSIVE SumStakes(_, _)
SumStakes(ids, a) ==
    IF ids = {} THEN 0
    ELSE LET id == CHOOSE i \in ids : TRUE
         IN  StakeOf(id, a).amount + SumStakes(ids \ {id}, a)

\* C22 (as claimed): an agent's totalStaked is the sum of the amounts of its
\* stakes on the proposals that are Pending.
C22_TotalStakedIsOpenStake ==
    \A a \in Agents :
        agents[a].totalStaked =
            SumStakes({id \in DOMAIN proposals : proposals[id].status = "Pending"}, a)

\* C22 (amended): totalStaked is cumulative: a successful createProposal or
\* stake of amount s by the agent adds s to it, no other step changes it, and
\* it never decreases, whatever becomes of the proposals.
C22_TotalStakedIsCumulative ==
    [][\A a \in Agents :
          IF \E id \in DOMAIN proposals' :
                 Step("createProposal", a, id) \/ Step("stake", a, id)
              THEN agents'[a].totalStaked = agents[a].totalStaked + last'.amount
              ELSE agents'[a].totalStaked = agents[a].totalStaked]_vars

\* an agent has claimed on a finalized proposal and its totalStaked still
\* counts the settled stake
C22_Witness ==
    /\ last.op = "claimRewards"
    /\ Prop(last.id).status # "Pending"
    /\ StakeOf(last.id, last.who).claimed
    /\ \A id \in DOMAIN proposals : proposals[id].status # "Pending"
    /\ agents[last.who].totalStaked >= StakeOf(last.id, last.who).amount
    /\ agents[last.who].totalStaked > 0

\* ------------------------------------------------------------ C23
\* C23 (as claimed): the amount and the side of an existing stake record never
\* change, and its claimed flag changes only from false to true and only in a
\* successful claimRewards of that participant on that proposal.
C23_StakeImmutable ==
    [][\A k \in DOMAIN stakes :
          /\ stakes'[k].amount = stakes[k].amount
          /\ stakes'[k].isFor = stakes[k].isFor
          /\ stakes[k].claimed => stakes'[k].claimed
          /\ stakes'[k].claimed # stakes[k].claimed => Step("claimRewards", k[2], k[1])]_vars

C25_ZeroAmountIsInsufficientStake ==
    /\ \A a \in Agents, amt \in Amounts, id \in KnownIds :
           ~agents[a].registered =>
               /\ CreateErr(a, amt) = "NotRegisteredAgent"
               /\ StakeErr(a, id, amt) = "NotRegisteredAgent"
    /\ \A a \in Agents, id \in KnownIds :
           agents[a].registered =>
               /\ CreateErr(a, 0) = "InsufficientStake"
               /\ StakeErr(a, id, 0) = "InsufficientStake"
    /\ \A k \in DOMAIN stakes : agents[k[2]].registered /\ stakes[k].amount > 0

\* C25 (amended): an unregistered caller fails with NotRegisteredAgent; a
\* registered agent's call with a zero amount always fails, with
\* InsufficientStake when the checks made before the amount check pass
\* (createProposal: not on cooldown; stake: proposal Pending, unexpired and
\* not yet staked on by the caller) and with the error of the first failing
\* check otherwise; every stake record belongs to a registered agent and has
\* amount > 0.
C25_Eligibility ==
    /\ \A a \in Agents, amt \in Amounts, id \in KnownIds :
           ~agents[a].registered =>
               /\ CreateErr(a, amt) = "NotRegisteredAgent"
               /\ StakeErr(a, id, amt) = "NotRegisteredAgent"
    /\ \A a \in Agents, id \in KnownIds :
           agents[a].registered =>
               /\ CreateErr(a, 0) =
                      IF now < agents[a].cooldownUntil THEN "AgentOnCooldown"
                      ELSE "InsufficientStake"
               /\ StakeErr(a, id, 0) =
                      IF Prop(id).status # "Pending" \/ now >= Prop(id).expiresAt
                          THEN "ProposalNotActive"
                      ELSE IF StakeOf(id, a).amount > 0 THEN "AlreadyStaked"
                      ELSE "InsufficientStake"
    /\ \A k \in DOMAIN stakes : agents[k[2]].registered /\ stakes[k].amount > 0

\* a registered agent that is not on cooldown faces a Pending, unexpired
\* proposal on which it has no stake: only the amount check stops a zero stake
C25_Witness ==
    \E id \in KnownIds, a \in Agents :
        /\ agents[a].registered
        /\ now >= agents[a].cooldownUntil
        /\ Prop(id).status = "Pending"
        /\ now < Prop(id).expiresAt
        /\ StakeOf(id, a).amount = 0
        /\ StakeErr(a, id, 0) = "InsufficientStake"
        /\ CreateErr(a, 0) = "InsufficientStake"

\* ------------------------------------------------------------ C26
\* the proposal and the participant an event identifies (NoAddr and UnknownId
\* when it carries none)
EventProposal(e) ==
    IF e[1] \in {"ProposalCreated", "StakePlaced", "ConsensusReached",
                 "ProposalRejected", "ProposalExpired"} THEN e[2]
    ELSE IF e[1] = "RewardClaimed" THEN e[3]
    ELSE UnknownId

EventAgent(e) ==
    IF e[1] = "ProposalCreated" THEN e[5]
    ELSE IF e[1] = "StakePlaced" THEN e[3]
    ELSE IF e[1] \in {"RewardClaimed", "AgentSlashed"} THEN e[2]
    ELSE NoAddr

\* C26 (as claimed): every successful state-changing call on a proposal emits
\* an event that identifies the proposal, and every successful createProposal,
\* stake and claimRewards (on an Expired, Executed or Rejected proposal) emits
\* an event that identifies both the proposal and the participant, so that the
\* claimed flag of every stake can be rebuilt from the events.
C26_EventsDetermineState ==
    /\ last.op \in {"createProposal", "stake", "claimRewards", "expireProposal"} =>
           \E i \in 1..Len(last.events) : EventProposal(last.events[i]) = last.id
    /\ last.op \in {"createProposal", "stake", "claimRewards"} =>
           \E i \in 1..Len(last.events) :
               /\ EventProposal(last.events[i]) = last.id
               /\ EventAgent(last.events[i]) = last.who

\* ------------------------------------------------------------ C27
\* what a successful claim step paid the claimant
Received(a) == balances'[a] - balances[a]

\* C27 (as claimed): on an Executed or Rejected proposal a winner's payout is
\* strictly greater than its stake amount and a loser's payout strictly less.
C27_StrictGainAndSlash ==
    [][\A a \in Agents, id \in KnownIds :
          Step("claimRewards", a, id) /\ Prop(id).status \in {"Executed", "Rejected"} =>
              IF WasWinner(Prop(id).status, StakeOf(id, a).isFor)
                  THEN Received(a) > StakeOf(id, a).amount
                  ELSE Received(a) < StakeOf(id, a).amount]_vars

\* C27 (amended): a winner's payout is never less than its stake amount and
\* exceeds it exactly when amount >= 20 (floor(amount*500/10000) >= 1); a
\* loser's payout is never more than its stake amount and is less exactly
\* when amount >= 10 (floor(amount*1000/10000) >= 1).
C27_GainAndSlashUpToRounding ==
    [][\A a \in Agents, id \in KnownIds :
          Step("claimRewards", a, id) /\ Prop(id).status \in {"Executed", "Rejected"} =>
              LET amt == StakeOf(id, a).amount
              IN  IF WasWinner(Prop(id).status, StakeOf(id, a).isFor)
                      THEN /\ Received(a) >= amt
                           /\ Received(a) > amt <=> amt >= 20
                      ELSE /\ Received(a) <= amt
                           /\ Received(a) < amt <=> amt >= 10]_vars

\* a loser has claimed a stake below 10 and received all of it back, after a
\* winner with a stake below 20 has claimed without a bonus
C27_Witness ==
    /\ last.op = "claimRewards"
    /\ Prop(last.id).status \in {"Executed", "Rejected"}
    /\ ~WasWinner(Prop(last.id).status, StakeOf(last.id, last.who).isFor)
    /\ StakeOf(last.id, last.who).amount < 10
    /\ last.amount = StakeOf(last.id, last.who).amount
    /\ agents[last.who].losses = 1
    /\ \E w \in Agents \ {last.who} :
           /\ StakeOf(last.id, w).claimed
           /\ StakeOf(last.id, w).amount < 20
           /\ agents[w].wins = 1

\* ------------------------------------------------------------ C28
\* C28 (as claimed): once minting is finished every mint call, by any caller,
\* fails with MintingFinished and totalSupply never changes again; before
\* that, only the owner mints.
C28_MintingClosedForAll ==
    /\ [](mintingFinished =>
              \A s \in Minters, to \in Recipients : MintErr(s, to) = "MintingFinished")
    /\ [][/\ mintingFinished => mintingFinished' /\ totalSupply' = totalSupply
          /\ totalSupply' # totalSupply =>
                 last'.op = "mint" /\ last'.who = tokenOwner]_vars

\* C28 (amended): once minting is finished every mint call fails, with
\* MintingFinished when the caller is the owner and with NotOwner otherwise,
\* minting stays finished and totalSupply never changes again; before that,
\* only the owner mints.
C28_MintingClosed ==
    /\ [](mintingFinished =>
              \A s \in Minters, to \in Recipients :
                  MintErr(s, to) = IF s = tokenOwner THEN "MintingFinished" ELSE "NotOwner")
    /\ [](~mintingFinished =>
              \A s \in Minters, to \in Recipients : s # tokenOwner => MintErr(s, to) = "NotOwner")
    /\ [][/\ mintingFinished => mintingFinished' /\ totalSupply' = totalSupply
          /\ totalSupply' # totalSupply =>
                 last'.op = "mint" /\ last'.who = tokenOwner]_vars

\* the owner has finished minting after tokens were minted, and still owns
\* the token
C28_Witness ==
    /\ last.op = "finishMinting"
    /\ mintingFinished
    /\ totalSupply > 0
    /\ tokenOwner = Owner

\* ------------------------------------------------------------ C29
\* the stakes that are recorded and not claimed
OpenStakes == {k \in DOMAIN stakes : stakes[k].amount > 0 /\ ~stakes[k].claimed}

RECURSIVE SumOpen(_)
SumOpen(ks) ==
    IF ks = {} THEN 0
    ELSE LET k == CHOOSE x \in ks : TRUE
         IN  stakes[k].amount + SumOpen(ks \ {k})

\* C29 (as claimed): solvency: the engine's custody balance is at least the
\* sum of the amounts of all stakes, on all proposals, that have not been
\* claimed.
C29_Solvency == balances[Engine] >= SumOpen(OpenStakes)

\* ------------------------------------------------------------ C30
\* C30 (as claimed): claim availability: on a finalized proposal every
\* participant whose stake is not claimed can claim successfully, whichever
\* other stakers have already claimed.
C30_ClaimAvailable ==
    \A id \in DOMAIN proposals : \A a \in Agents :
        /\ proposals[id].status # "Pending"
        /\ StakeOf(id, a).amount > 0
        /\ ~StakeOf(id, a).claimed
        => ClaimErr(a, id) = "ok"

\* ------------------------------------------------------------ arbitrary identifiers
\* identifiers a caller may pass besides those createProposal has returned:
\* the zero identifier, and the one mo's first proposal gets when it is
\* created at deployment time
ForeignIds == {UnknownId, ProposalId("tok", "Long", GenesisTime, "mo")}

AnyIds == KnownIds \cup ForeignIds

NextAnyId ==
    \/ \E s \in Agents, tk \in Tokens, d \in Directions, a \in Amounts :
          createProposal(s, tk, d, a) /\ UNCHANGED orchVars
    \/ \E s \in Agents, id \in AnyIds, a \in Amounts, f \in BOOLEAN :
          stake(s, id, a, f) /\ UNCHANGED orchVars
    \/ \E s \in Agents, id \in AnyIds : claimRewards(s, id) /\ UNCHANGED orchVars
    \/ \E s \in Agents, id \in AnyIds : expireProposal(s, id) /\ UNCHANGED orchVars
    \/ \E s \in Agents \cup {Owner}, a \in Agents \cup {NoAddr} : registerAgent(s, a)
          /\ UNCHANGED orchVars
    \/ \E t \in WarpTargets : Warp(t) /\ UNCHANGED orchVars

\* the engine called with identifiers of the callers' choice
SpecAnyId == Init /\ [][NextAnyId]_vars

\* ------------------------------------------------------------ C31
\* C31 (as claimed): expireProposal, stake and claimRewards fail for every
\* identifier that createProposal has never produced, and every proposal
\* record with a status other than Pending has a creator, a creation time and
\* at least one stake.
C31_OnlyCreatedHaveState ==
    /\ \A id \in AnyIds :
           TimesCreated(id) = 0 =>
               /\ ExpireErr(id) # "ok"
               /\ \A s \in Agents :
                      /\ ClaimErr(s, id) # "ok"
                      /\ \A a \in Amounts : StakeErr(s, id, a) # "ok"
    /\ \A id \in DOMAIN proposals :
           proposals[id].status # "Pending" =>
               /\ proposals[id].creator # NoAddr
               /\ proposals[id].createdAt > 0
               /\ Stakers(id) # {}

\* ------------------------------------------------------------ the quorum resolver alone
\* the largest total of one side the resolver is run on
MaxTotal == 20

\* the events _checkConsensus emits when it takes a proposal from `before`
\* to `after`
ConsensusEvents(id, direction, totalStakeFor, before, after) ==
    IF after = before THEN <<>>
    ELSE IF after = "Executed"
        THEN << <<"ConsensusReached", id, direction, totalStakeFor>> >>
    ELSE << <<"ProposalRejected", id>> >>

\* the state in which _checkConsensus is entered: a Pending proposal whose
\* totals have just been updated to any pair (F, A)
InitQuorum ==
    \E F \in 0..MaxTotal, A \in 0..MaxTotal :
        LET X == ProposalId("tok", "Long", GenesisTime, "mo")
        IN  /\ now = GenesisTime
            /\ owner = Owner
            /\ agents = [a \in Agents |-> [ZeroAgent EXCEPT !.registered = TRUE]]
            /\ proposals = X :> [token |-> "tok", direction |-> "Long",
                                 createdAt |-> GenesisTime,
                                 expiresAt |-> GenesisTime + PROPOSAL_TIMEOUT,
                                 totalStakeFor |-> F, totalStakeAgainst |-> A,
                                 status |-> "Pending", creator |-> "mo"]
            /\ stakes = <<>>
            /\ proposalStakers = <<>>
            /\ activeProposalIds = <<X>>
            /\ allProposalIds = <<X>>
            /\ balances = [h \in Holders |-> IF h = Engine THEN F + A ELSE 0]
            /\ allowances = [a \in Agents |-> MaxUint256]
            /\ totalSupply = F + A
            /\ mintingFinished = FALSE
            /\ tokenOwner = Owner
            /\ vault = DeployedVault
            /\ stakedIn = X :> (F + A)
            /\ paidOut = <<>>
            /\ lossTimes = [a \in Agents |-> {}]
            /\ claimCount = <<>>
            /\ vaultCalls = {}
            /\ finalizations = <<>>
            /\ orchestrator = IdleOrchestrator
            /\ last = [op |-> "totals", who |-> Engine, id |-> X, amount |-> F + A,
                       nonce |-> 0, events |-> <<>>]

\* one run of the internal function _checkConsensus(proposalId)
checkConsensus(proposalId) ==
    LET proposal == Prop(proposalId)
        status == _checkConsensus(proposal.status, proposal.totalStakeFor,
                                  proposal.totalStakeAgainst)
    IN  /\ last.op = "totals"
        /\ proposals' = Put(proposals, proposalId, [proposal EXCEPT !.status = status])
        /\ activeProposalIds' =
               IF status # proposal.status
                   THEN _removeFromActive(activeProposalIds, proposalId)
                   ELSE activeProposalIds
        /\ finalizations' = Logged(finalizations,
                        ConsensusEvents(proposalId, proposal.direction,
                                        proposal.totalStakeFor, proposal.status, status))
        /\ last' = Call("_checkConsensus", Engine, proposalId, 0,
                        ConsensusEvents(proposalId, proposal.direction,
                                        proposal.totalStakeFor, proposal.status, status))
        /\ UNCHANGED <<now, owner, agents, stakes, proposalStakers, allProposalIds,
                       ledgerVars, mintVars, vaultVars, transferVars, vaultCalls>>

NextQuorum == \E id \in KnownIds : checkConsensus(id) /\ UNCHANGED orchVars

SpecQuorum == InitQuorum /\ [][NextQuorum]_vars

\* ------------------------------------------------------------ C32
ForShare(F, A) == (F * BPS_DENOMINATOR) \div (F + A)

AgainstShare(F, A) == (A * BPS_DENOMINATOR) \div (F + A)

\* the resolver with the two comparisons in the other order
AgainstFirst(status, F, A) ==
    IF F + A = 0 THEN status
    ELSE IF AgainstShare(F, A) >= QUORUM_BPS THEN "Rejected"
    ELSE IF ForShare(F, A) >= QUORUM_BPS THEN "Executed"
    ELSE status

\* C32: for no totals (F, A) with F + A > 0 are both floored shares at
\* least 6600; the resolver decides as it would with the against-share tested
\* first, it executes exactly when the for-share is at least 6600 and it
\* rejects exactly when the against-share is, so a Rejected proposal has a
\* for-share below 6600.
C32_QuorumExclusive ==
    \A id \in DOMAIN proposals :
        LET F == proposals[id].totalStakeFor
            A == proposals[id].totalStakeAgainst
            decided == _checkConsensus("Pending", F, A)
        IN  F + A > 0 =>
                /\ ~(ForShare(F, A) >= QUORUM_BPS /\ AgainstShare(F, A) >= QUORUM_BPS)
                /\ decided = AgainstFirst("Pending", F, A)
                /\ decided = "Executed" <=> ForShare(F, A) >= QUORUM_BPS
                /\ decided = "Rejected" <=> AgainstShare(F, A) >= QUORUM_BPS
                /\ last.op = "_checkConsensus" => proposals[id].status = decided
                /\ proposals[id].status = "Rejected" => ForShare(F, A) < QUORUM_BPS

\* the resolver has rejected a proposal that has stake on both sides
C32_Witness ==
    /\ last.op = "_checkConsensus"
    /\ \E id \in DOMAIN proposals :
           /\ proposals[id].status = "Rejected"
           /\ proposals[id].totalStakeFor > 0
           /\ last.events = << <<"ProposalRejected", id>> >>

\* ------------------------------------------------------------ C33
\* some share of the proposal's total stake is a quorum
QuorumMet(p) ==
    /\ p.totalStakeFor + p.totalStakeAgainst > 0
    /\ \/ ForShare(p.totalStakeFor, p.totalStakeAgainst) >= QUORUM_BPS
       \/ AgainstShare(p.totalStakeFor, p.totalStakeAgainst) >= QUORUM_BPS

\* C33 (as claimed): a Pending proposal never has a for-share or an
\* against-share of 66% or more of its total stake.
C33_NoPendingQuorum ==
    \A id \in DOMAIN proposals :
        proposals[id].status = "Pending" => ~QuorumMet(proposals[id])

\* C33 (amended): the quorum is evaluated after every successful stake call
\* and not by createProposal: a proposal that is Pending right after a
\* successful stake on it has no share of 66% or more, and a Pending proposal
\* whose totals satisfy the quorum rule holds nothing but its creator's
\* initial stake.
C33_QuorumEvaluatedAfterStake ==
    /\ [](\A id \in DOMAIN proposals :
              proposals[id].status = "Pending" /\ QuorumMet(proposals[id]) =>
                  /\ proposals[id].totalStakeAgainst = 0
                  /\ proposals[id].totalStakeFor =
                         StakeOf(id, proposals[id].creator).amount)
    /\ [][\A s \in Agents, id \in DOMAIN proposals' :
              Step("stake", s, id) /\ proposals'[id].status = "Pending" =>
                  ~QuorumMet(proposals'[id])]_vars

\* a stake has left a proposal Pending with stake on both sides
C33_Witness ==
    /\ last.op = "stake"
    /\ proposals[last.id].status = "Pending"
    /\ proposals[last.id].totalStakeAgainst > 0
    /\ proposals[last.id].totalStakeFor > 0

\* ------------------------------------------------------------ C34
\* C34 (as claimed): the event stream of every proposal holds exactly one
\* ProposalCreated event, emitted before all of its StakePlaced events, and
\* at most one finalization event, which is emitted in the step that takes
\* the proposal out of Pending and after which no StakePlaced event of the
\* proposal is emitted.
C34_EventOrdering ==
    /\ [](\A id \in DOMAIN proposals :
              /\ TimesCreated(id) = 1
              /\ Tally(finalizations, id) <= 1)
    /\ [][/\ last'.nonce = last.nonce + 1 =>
                 \A i \in 1..Len(last'.events) :
                     LET e == last'.events[i]
                         id == EventProposal(e)
                     IN  /\ e[1] = "ProposalCreated" => TimesCreated(id) = 0
                         /\ e[1] = "StakePlaced" =>
                                /\ \/ TimesCreated(id) >= 1
                                   \/ \E j \in 1..(i - 1) :
                                          /\ last'.events[j][1] = "ProposalCreated"
                                          /\ EventProposal(last'.events[j]) = id
                                /\ Tally(finalizations, id) = 0
                         /\ e[1] \in FinalizationEvents =>
                                /\ Prop(id).status = "Pending"
                                /\ proposals'[id].status # "Pending"
                                /\ Tally(finalizations, id) = 0
          /\ \A id \in DOMAIN proposals :
                 proposals[id].status = "Pending" /\ proposals'[id].status # "Pending" =>
                     /\ last'.nonce = last.nonce + 1
                     /\ \E i \in 1..Len(last'.events) :
                            /\ last'.events[i][1] \in FinalizationEvents
                            /\ EventProposal(last'.events[i]) = id]_vars

\* ------------------------------------------------------------ ownership of the engine
\* the callers of the owner functions
AdminCallers == Agents \cup {Owner}

\* BarrelConsensus.renounceOwnership
renounceOwnership(sender) ==
    IF sender # owner THEN Reverted
    ELSE /\ owner' = NoAddr
         /\ UNCHANGED <<now, agents, proposals, stakes, proposalStakers, activeProposalIds,
                        allProposalIds, ledgerVars, mintVars, vaultVars, historyVars, last>>

NextAdmin ==
    \/ \E s \in Agents, tk \in Tokens, d \in Directions, a \in Amounts :
          createProposal(s, tk, d, a) /\ UNCHANGED orchVars
    \/ \E s \in Agents, id \in KnownIds, a \in Amounts, f \in BOOLEAN :
          stake(s, id, a, f) /\ UNCHANGED orchVars
    \/ \E s \in Agents, id \in KnownIds : claimRewards(s, id) /\ UNCHANGED orchVars
    \/ \E s \in Agents, id \in KnownIds : expireProposal(s, id) /\ UNCHANGED orchVars
    \/ \E s \in AdminCallers, a \in Agents \cup {NoAddr} : registerAgent(s, a)
          /\ UNCHANGED orchVars
    \/ \E s \in AdminCallers : renounceOwnership(s) /\ UNCHANGED orchVars
    \/ \E t \in WarpTargets : Warp(t) /\ UNCHANGED orchVars

\* the engine with an owner who may renounce
SpecAdmin == Init /\ [][NextAdmin]_vars

\* ------------------------------------------------------------ C35
\* C35: registerAgent fails with NotOwner for every caller that is not the
\* current owner and with ZeroAddress for the zero address; an agent's
\* registered flag becomes true only in a step that changes nothing else,
\* taken while the engine has an owner; it never becomes false again; and
\* once ownership is renounced the engine stays without owner and no flag
\* changes.
C35_RegistrationOwnerOnlyPermanent ==
    /\ [](\A s \in AdminCallers, a \in Agents \cup {NoAddr} :
              /\ s # owner => RegisterErr(s, a) = "NotOwner"
              /\ s = owner /\ a = NoAddr => RegisterErr(s, a) = "ZeroAddress")
    /\ [][/\ \A a \in Agents :
                 /\ agents[a].registered => agents'[a].registered
                 /\ ~agents[a].registered /\ agents'[a].registered =>
                        /\ owner # NoAddr
                        /\ RegisterErr(owner, a) = "ok"
                        /\ agents' = [agents EXCEPT ![a].registered = TRUE]
                        /\ UNCHANGED <<now, owner, proposals, stakes, proposalStakers,
                                       activeProposalIds, allProposalIds, ledgerVars, last>>
          /\ owner = NoAddr =>
                 /\ owner' = NoAddr
                 /\ \A a \in Agents : agents'[a].registered = agents[a].registered]_vars

\* ownership was renounced after one agent was registered and before the
\* other was, and the registered one has since created a proposal
C35_Witness ==
    /\ owner = NoAddr
    /\ \E a, b \in Agents :
           /\ agents[a].registered
           /\ ~agents[b].registered
           /\ last.op = "createProposal" /\ last.who = a

\* ------------------------------------------------------------ C36
\* the proposals on which the agent's stake is claimed and was on the winning
\* side, and those on which it is claimed and was on the losing side
ClaimedWins(a) ==
    {id \in DOMAIN proposals :
        /\ StakeOf(id, a).amount > 0
        /\ StakeOf(id, a).claimed
        /\ WasWinner(proposals[id].status, StakeOf(id, a).isFor)}

ClaimedLosses(a) ==
    {id \in DOMAIN proposals :
        /\ StakeOf(id, a).amount > 0
        /\ StakeOf(id, a).claimed
        /\ proposals[id].status \in {"Executed", "Rejected"}
        /\ ~WasWinner(proposals[id].status, StakeOf(id, a).isFor)}

\* C36 (as claimed): an agent's win count is the number of its claimed stakes
\* on the winning side of an Executed or Rejected proposal and its loss count
\* the number of its claimed stakes on the losing side.
C36_WinLossAccounting ==
    \A a \in Agents :
        /\ agents[a].wins = Cardinality(ClaimedWins(a))
        /\ agents[a].losses = Cardinality(ClaimedLosses(a))

\* ------------------------------------------------------------ BarrelVault
\* the callers of the vault, the swap target among them
SwapTarget == "dex"
VaultCallers == {Engine, Owner, SwapTarget}
VaultIds == {ProposalId("tok", "Long", GenesisTime, a) : a \in Agents}
VaultTokens == {"tok", "usd"}
TradeAmounts == {0, 10}
MinAmountsOut == {0, 5}
\* balanceAfter - balanceBefore of tokenOut over the swap
SwapDeltas == {-5, 0, 5}

\* the vault right after its construction with the engine's address
InitVault ==
    /\ now = GenesisTime
    /\ owner = Owner
    /\ agents = [a \in Agents |-> ZeroAgent]
    /\ proposals = <<>>
    /\ stakes = <<>>
    /\ proposalStakers = <<>>
    /\ activeProposalIds = <<>>
    /\ allProposalIds = <<>>
    /\ balances = [h \in Holders |-> 0]
    /\ allowances = [a \in Agents |-> 0]
    /\ totalSupply = 0
    /\ mintingFinished = FALSE
    /\ tokenOwner = Owner
    /\ vault = [consensus |-> Engine, owner |-> Owner, supportedTokens |-> {},
                trades |-> <<>>, executedProposals |-> {}]
    /\ stakedIn = <<>>
    /\ paidOut = <<>>
    /\ lossTimes = [a \in Agents |-> {}]
    /\ claimCount = <<>>
    /\ vaultCalls = {}
    /\ finalizations = <<>>
    /\ orchestrator = IdleOrchestrator
    /\ last = [op |-> "constructor", who |-> Owner, id |-> UnknownId, amount |-> 0,
               nonce |-> 0, events |-> <<>>]

\* mutant: a proposal may be executed again
SimpleTradeErr_NoExecutedCheck(v, sender, proposalId, tokenIn, amountIn) ==
    IF sender # v.consensus THEN "NotConsensus"
    ELSE IF tokenIn \notin v.supportedTokens THEN "UnsupportedToken"
    ELSE IF amountIn = 0 THEN "ZeroAmount"
    ELSE "ok"

\* the revert reason of executeSimpleTrade on vault storage v, or "ok"
SimpleTradeErr(v, sender, proposalId, tokenIn, amountIn) ==
    IF sender # v.consensus THEN "NotConsensus"
    ELSE IF proposalId \in v.executedProposals THEN "AlreadyExecuted"
    ELSE IF tokenIn \notin v.supportedTokens THEN "UnsupportedToken"
    ELSE IF amountIn = 0 THEN "ZeroAmount"
    ELSE "ok"

\* the revert reason of executeTrade, or "ok": the checks before the swap,
\* then the swap's success flag, the balance difference and the slippage
TradeErr(v, sender, proposalId, tokenIn, tokenOut, amountIn, minAmountOut, success, delta) ==
    IF sender # v.consensus THEN "NotConsensus"
    ELSE IF proposalId \in v.executedProposals THEN "AlreadyExecuted"
    ELSE IF tokenIn \notin v.supportedTokens \/ tokenOut \notin v.supportedTokens
        THEN "UnsupportedToken"
    ELSE IF amountIn = 0 THEN "ZeroAmount"
    ELSE IF ~success THEN "Swap failed"
    ELSE IF delta < 0 THEN "Panic"
    ELSE IF delta < minAmountOut THEN "Slippage too high"
    ELSE "ok"

Trade(proposalId, tokenIn, tokenOut, amountIn, amountOut) ==
    [proposalId |-> proposalId, tokenIn |-> tokenIn, tokenOut |-> tokenOut,
     amountIn |-> amountIn, amountOut |-> amountOut, executedAt |-> now]

\* vault storage v after the body of executeSimpleTrade
SimplyTraded(v, proposalId, tokenIn, tokenOut, amountIn) ==
    [v EXCEPT !.executedProposals = @ \cup {proposalId},
              !.trades = Append(@, Trade(proposalId, tokenIn, tokenOut, amountIn, 0))]

executeSimpleTrade(sender, proposalId, tokenIn, tokenOut, amountIn) ==
    IF SimpleTradeErr(vault, sender, proposalId, tokenIn, amountIn) # "ok" THEN Reverted
    ELSE /\ Budget
         /\ vault' = SimplyTraded(vault, proposalId, tokenIn, tokenOut, amountIn)
         /\ last' = Call("executeSimpleTrade", sender, proposalId, amountIn,
                         << <<"TradeExecuted", proposalId, tokenIn, tokenOut, amountIn, 0>> >>)
         /\ UNCHANGED <<now, engineVars, ledgerVars, mintVars, historyVars>>

\* executeTrade; `reenter` says that the swap target, during the swap, calls
\* executeSimpleTrade for the same proposal and swallows a revert of that call
executeTrade(sender, proposalId, tokenIn, tokenOut, amountIn, minAmountOut, reenter, success, delta) ==
    LET err == TradeErr(vault, sender, proposalId, tokenIn, tokenOut, amountIn,
                        minAmountOut, success, delta)
        marked == [vault EXCEPT !.executedProposals = @ \cup {proposalId}]
        swapped ==
            IF reenter /\ SimpleTradeErr(marked, SwapTarget, proposalId, tokenIn, amountIn) = "ok"
                THEN SimplyTraded(marked, proposalId, tokenIn, tokenOut, amountIn)
                ELSE marked
    IN  IF err # "ok" THEN Reverted
        ELSE /\ Budget
             /\ vault' = [swapped EXCEPT !.trades =
                              Append(@, Trade(proposalId, tokenIn, tokenOut, amountIn, delta))]
             /\ last' = Call("executeTrade", sender, proposalId, amountIn,
                             << <<"TradeExecuted", proposalId, tokenIn, tokenOut, amountIn,
                                  delta>> >>)
             /\ UNCHANGED <<now, engineVars, ledgerVars, mintVars, historyVars>>

setConsensus(sender, _consensus) ==
    IF sender # vault.owner \/ _consensus = NoAddr THEN Reverted
    ELSE /\ vault' = [vault EXCEPT !.consensus = _consensus]
         /\ UNCHANGED <<now, engineVars, ledgerVars, mintVars, historyVars, last>>

setSupportedToken(sender, token, supported) ==
    IF sender # vault.owner \/ token = NoAddr THEN Reverted
    ELSE /\ vault' = [vault EXCEPT !.supportedTokens =
                          IF supported THEN @ \cup {token} ELSE @ \ {token}]
         /\ UNCHANGED <<now, engineVars, ledgerVars, mintVars, historyVars, last>>

NextVault ==
    \/ \E s \in VaultCallers, id \in VaultIds, ti \in VaultTokens, to \in VaultTokens,
          a \in TradeAmounts :
          executeSimpleTrade(s, id, ti, to, a) /\ UNCHANGED orchVars
    \/ \E s \in VaultCallers, id \in VaultIds, ti \in VaultTokens, to \in VaultTokens,
          a \in TradeAmounts, m \in MinAmountsOut, r \in BOOLEAN, ok \in BOOLEAN,
          d \in SwapDeltas :
          executeTrade(s, id, ti, to, a, m, r, ok, d) /\ UNCHANGED orchVars
    \/ \E s \in VaultCallers, c \in {Engine, SwapTarget, NoAddr} : setConsensus(s, c)
          /\ UNCHANGED orchVars
    \/ \E s \in VaultCallers, t \in VaultTokens \cup {NoAddr}, b \in BOOLEAN :
          setSupportedToken(s, t, b) /\ UNCHANGED orchVars

SpecVault == InitVault /\ [][NextVault]_vars

\* ------------------------------------------------------------ C37
\* C37: executeTrade and executeSimpleTrade fail with NotConsensus for every
\* caller other than the consensus address and, for the consensus address,
\* with AlreadyExecuted once the proposal is marked executed; the trades list
\* never holds two records of one proposal; executedProposals and trades
\* change only together, in a successful execution of a proposal that was
\* not executed before.
C37_ExecutedAtMostOnce ==
    /\ [](\A s \in VaultCallers, id \in VaultIds, ti \in VaultTokens, to \in VaultTokens,
             a \in TradeAmounts, m \in MinAmountsOut, ok \in BOOLEAN, d \in SwapDeltas :
              LET simple == SimpleTradeErr(vault, s, id, ti, a)
                  trade == TradeErr(vault, s, id, ti, to, a, m, ok, d)
              IN  /\ s # vault.consensus =>
                         simple = "NotConsensus" /\ trade = "NotConsensus"
                  /\ s = vault.consensus /\ id \in vault.executedProposals =>
                         simple = "AlreadyExecuted" /\ trade = "AlreadyExecuted")
    /\ [](\A i, j \in 1..Len(vault.trades) :
              i # j => vault.trades[i].proposalId # vault.trades[j].proposalId)
    /\ [][vault'.trades # vault.trades
             \/ vault'.executedProposals # vault.executedProposals =>
                 /\ last'.nonce = last.nonce + 1
                 /\ last'.op \in {"executeTrade", "executeSimpleTrade"}
                 /\ last'.who = vault.consensus
                 /\ last'.id \notin vault.executedProposals
                 /\ vault'.executedProposals = vault.executedProposals \cup {last'.id}
                 /\ Len(vault'.trades) = Len(vault.trades) + 1
                 /\ SubSeq(vault'.trades, 1, Len(vault.trades)) = vault.trades
                 /\ vault'.trades[Len(vault'.trades)].proposalId = last'.id]_vars

\* both kinds of execution have recorded a trade, and a swap during which the
\* swap target was the consensus address went through
C37_Witness ==
    /\ Len(vault.trades) = 2
    /\ last.op = "executeTrade"
    /\ last.who = SwapTarget
    /\ vault.trades[1].amountOut = 0
    /\ vault.trades[2].amountOut > 0

\* ------------------------------------------------------------ Orchestrator
\* the largest value of stats.tickCount that is told apart
MaxTicks == 2

\* the hash of the transaction that is the n-th successful call, sent by
\* `sender`: ContractClient.createProposal returns it as the proposal's id.
\* It is a hash of the signed transaction, not of the arguments that make up
\* the engine's identifier, so it differs from every ProposalId
TxHash(n, sender) == <<"tx", "hash", n, sender>>

\* decision.amount of agent.evaluateProposal
DecisionAmounts == {0, 10}

\* the positions of start() inside tick()
InTick == {"tick", "proposals", "stakes", "update", "claims"}

\* the engine deployed, the agents funded, approved and registered, and the
\* orchestrator constructed
InitOrch ==
    /\ now = GenesisTime
    /\ owner = Owner
    /\ agents = [a \in Agents |-> [ZeroAgent EXCEPT !.registered = TRUE]]
    /\ proposals = <<>>
    /\ stakes = <<>>
    /\ proposalStakers = <<>>
    /\ activeProposalIds = <<>>
    /\ allProposalIds = <<>>
    /\ balances = [h \in Holders |-> IF h = Engine THEN 0 ELSE AGENT_ALLOCATION]
    /\ allowances = [a \in Agents |-> MaxUint256]
    /\ totalSupply = Cardinality(Agents) * AGENT_ALLOCATION
    /\ mintingFinished = FALSE
    /\ tokenOwner = Owner
    /\ vault = DeployedVault
    /\ stakedIn = <<>>
    /\ paidOut = <<>>
    /\ lossTimes = [a \in Agents |-> {}]
    /\ claimCount = <<>>
    /\ vaultCalls = {}
    /\ finalizations = <<>>
    /\ orchestrator = IdleOrchestrator
    /\ last = [op |-> "constructor", who |-> Owner, id |-> UnknownId, amount |-> 0,
               nonce |-> 0, events |-> <<>>]

\* the orchestrator with the locals of the tick dropped
Resting(o) ==
    [o EXCEPT !.proposal = NoProposal, !.toPoll = {}, !.claiming = NoProposal.id,
              !.claimants = {}]

\* stats.tickCount++
Ticked(o) == [o EXCEPT !.tickCount = IF @ < MaxTicks THEN @ + 1 ELSE @]

\* mutant: the loop does not test isRunning
LoopTarget_Forever(isRunning) == "tick"

\* while (this.state.isRunning): the position after the test
LoopTarget(isRunning) == IF isRunning THEN "tick" ELSE "returned"

start ==
    /\ orchestrator.pc = "idle"
    /\ orchestrator' = [orchestrator EXCEPT !.isRunning = TRUE, !.pc = "loop"]
    /\ UNCHANGED chainVars

stop ==
    /\ orchestrator.isRunning
    /\ orchestrator' = [orchestrator EXCEPT !.isRunning = FALSE]
    /\ UNCHANGED chainVars

\* the test of the while loop of start()
loopCheck ==
    /\ orchestrator.pc = "loop"
    /\ orchestrator' = [orchestrator EXCEPT !.pc = LoopTarget(orchestrator.isRunning)]
    /\ UNCHANGED chainVars

\* tick, step 1: without signals the tick returns at once
fetchMarketSignals(found) ==
    /\ orchestrator.pc = "tick"
    /\ orchestrator' =
           IF found THEN [orchestrator EXCEPT !.pc = "proposals"]
           ELSE Ticked([orchestrator EXCEPT !.pc = "sleep"])
    /\ UNCHANGED chainVars

\* processProposal, first half: the creator's client sends createProposal and
\* the transaction hash becomes proposal.id; a failure ends processProposal
processProposal(agent, token, direction, stakeAmount) ==
    /\ orchestrator.pc = "proposals"
    /\ createProposal(agent, token, direction, stakeAmount)
    /\ orchestrator' =
           IF CreateErr(agent, stakeAmount) = "ok"
               THEN [orchestrator EXCEPT
                        !.pc = "stakes",
                        !.proposal = [id |-> TxHash(last.nonce + 1, agent), agent |-> agent]]
               ELSE orchestrator

\* processProposal, second half: the other agent's decision is staked on
\* proposal.id (a failure is logged), then the proposal is tracked
submitStake(agent, amount, isFor) ==
    /\ orchestrator.pc = "stakes"
    /\ agent # orchestrator.proposal.agent
    /\ IF amount > 0 THEN stake(agent, orchestrator.proposal.id, amount, isFor)
       ELSE UNCHANGED chainVars
    /\ orchestrator' = [orchestrator EXCEPT
                            !.pc = "proposals",
                            !.activeProposals = @ \cup {orchestrator.proposal.id},
                            !.proposal = NoProposal]

\* tick, step 4: updateActiveProposals starts over the tracked proposals
updateActiveProposals ==
    /\ orchestrator.pc = "proposals"
    /\ orchestrator' = [orchestrator EXCEPT !.pc = "update",
                                            !.toPoll = orchestrator.activeProposals]
    /\ UNCHANGED chainVars

\* one turn of the loop of updateActiveProposals: getProposal(id), and the
\* claims when the status read is not Pending
pollProposal(id) ==
    /\ orchestrator.pc = "update"
    /\ id \in orchestrator.toPoll
    /\ orchestrator' =
           IF Prop(id).status = "Pending"
               THEN [orchestrator EXCEPT !.toPoll = @ \ {id}]
               ELSE [orchestrator EXCEPT !.toPoll = @ \ {id}, !.pc = "claims",
                                         !.claiming = id, !.claimants = Agents]
    /\ UNCHANGED chainVars

\* claimRewardsForProposal: one client's claim, its failure swallowed; after
\* the last client the proposal is no longer tracked
claimRewardsForProposal(name) ==
    /\ orchestrator.pc = "claims"
    /\ name \in orchestrator.claimants
    /\ claimRewards(name, orchestrator.claiming)
    /\ orchestrator' =
           IF orchestrator.claimants = {name}
               THEN [orchestrator EXCEPT
                        !.claimants = {}, !.pc = "update", !.claiming = NoProposal.id,
                        !.activeProposals = @ \ {orchestrator.claiming}]
               ELSE [orchestrator EXCEPT !.claimants = @ \ {name}]

\* the tick returns: lastTick is set and tickCount incremented
tickDone ==
    /\ orchestrator.pc = "update"
    /\ orchestrator.toPoll = {}
    /\ orchestrator' = Ticked(Resting([orchestrator EXCEPT !.pc = "sleep"]))
    /\ UNCHANGED chainVars

\* the tick throws: the catch block of start() logs the error
tickThrows ==
    /\ orchestrator.pc \in InTick
    /\ orchestrator' = Resting([orchestrator EXCEPT !.pc = "sleep", !.errorLogged = TRUE])
    /\ UNCHANGED chainVars

\* await this.sleep(pollIntervalMs) is over
sleep ==
    /\ orchestrator.pc = "sleep"
    /\ orchestrator' = [orchestrator EXCEPT !.pc = "loop"]
    /\ UNCHANGED chainVars

\* the steps start() takes by itself once it was called
LoopStep ==
    \/ loopCheck
    \/ \E found \in BOOLEAN : fetchMarketSignals(found)
    \/ \E a \in Agents, tk \in Tokens, d \in Directions, s \in Amounts :
          processProposal(a, tk, d, s)
    \/ \E a \in Agents, s \in DecisionAmounts, f \in BOOLEAN : submitStake(a, s, f)
    \/ updateActiveProposals
    \/ \E id \in orchestrator.activeProposals : pollProposal(id)
    \/ \E a \in Agents : claimRewardsForProposal(a)
    \/ tickDone
    \/ sleep

NextOrch ==
    \/ start
    \/ stop
    \/ loopCheck
    \/ \E found \in BOOLEAN : fetchMarketSignals(found)
    \/ \E a \in Agents, tk \in Tokens, d \in Directions, s \in Amounts :
          processProposal(a, tk, d, s)
    \/ \E a \in Agents, s \in DecisionAmounts, f \in BOOLEAN : submitStake(a, s, f)
    \/ updateActiveProposals
    \/ \E id \in orchestrator.activeProposals : pollProposal(id)
    \/ \E a \in Agents : claimRewardsForProposal(a)
    \/ tickDone
    \/ tickThrows
    \/ sleep
    \/ \E s \in Agents, id \in KnownIds \cup orchestrator.activeProposals :
          expireProposal(s, id) /\ UNCHANGED orchVars

SpecOrch == InitOrch /\ [][NextOrch]_vars

\* the awaited promises settle and the sleep timer fires
SpecOrchFair == InitOrch /\ [][NextOrch]_vars /\ WF_vars(LoopStep)

\* ------------------------------------------------------------ C38
\* C38 (as claimed): the identifier under which the orchestrator stakes for
\* the other agents, polls the status and claims is the identifier of the
\* proposal its createProposal call created on the chain.
C38_OrchestratorUsesCreatedId ==
    /\ orchestrator.pc = "stakes" =>
           /\ orchestrator.proposal.id \in Range(allProposalIds)
           /\ Prop(orchestrator.proposal.id).creator = orchestrator.proposal.agent
    /\ \A id \in orchestrator.activeProposals \cup orchestrator.toPoll :
           id \in Range(allProposalIds)
    /\ orchestrator.pc = "claims" => orchestrator.claiming \in Range(allProposalIds)


\* ------------------------------------------------------------ C39
\* the loop of start() was stopped and is outside a tick
StoppedOutsideTick ==
    /\ ~orchestrator.isRunning
    /\ orchestrator.pc \in {"loop", "sleep", "returned"}

\* C39: once stop() was called on the running loop, isRunning stays false, no
\* tick starts after the one in progress and tickCount no longer changes
\* once that tick is over, and start() eventually returns; the loop returns
\* only when isRunning is false, a tick that throws leads to the sleep, and
\* while isRunning stays true another tick follows it.
C39_OrchestratorShutdown ==
    /\ [][(~orchestrator.isRunning /\ orchestrator.pc # "idle")
              => ~orchestrator'.isRunning]_vars
    /\ [][StoppedOutsideTick
              => /\ orchestrator'.pc \notin InTick
                 /\ orchestrator'.tickCount = orchestrator.tickCount]_vars
    /\ (~orchestrator.isRunning /\ orchestrator.pc # "idle")
           ~> (orchestrator.pc = "returned")
    /\ [][(orchestrator.pc # "returned" /\ orchestrator'.pc = "returned")
              => (~orchestrator.isRunning /\ orchestrator.pc = "loop")]_vars
    /\ [][(orchestrator.pc \in InTick /\ orchestrator'.pc \notin InTick)
              => orchestrator'.pc = "sleep"]_vars
    /\ (orchestrator.errorLogged /\ orchestrator.pc = "sleep" /\ orchestrator.isRunning)
           ~> (orchestrator.pc = "tick" \/ ~orchestrator.isRunning)

\* start() has returned after a completed tick and a tick that threw
C39_Witness ==
    /\ orchestrator.pc = "returned"
    /\ orchestrator.errorLogged
    /\ orchestrator.tickCount >= 1

====
